---- MODULE Spec2Model ----
(***************************************************************************)
(* Event-indexing and notification pipeline of the stablecoin backend:     *)
(* the Borsh event decoder, the log stream listener, the SQLite audit      *)
(* store and the webhook dispatcher (backend/src/services, backend/src/db).*)
(*                                                                         *)
(* Representation choices                                                  *)
(*  - a Buffer is a sequence of bytes (0..255);                            *)
(*  - an address string (PublicKey.toBase58) is represented by the 32      *)
(*    bytes it renders, base58 being an injective rendering of them;       *)
(*  - a 64-bit integer rendered by BigInt.toString() is a record of a sign *)
(*    and a sequence of decimal digits, computed digit by digit so that    *)
(*    the full 64-bit range is covered without wide integers;              *)
(*  - the base64 text of a "Program data: " log line is represented by the *)
(*    bytes Buffer.from(text, "base64") yields;                            *)
(*  - a text made of event names is a sequence of tokens, a token being an *)
(*    event name, "*", "," or " ".                                         *)
(***************************************************************************)
EXTENDS Integers, Sequences, FiniteSets, TLC

\* ------------------------------------------------------------------------
\* Bounds of the model
\* ------------------------------------------------------------------------

\* steps of the listener pipeline in one behaviour: calls of start() and
\* stop(), notifications delivered by the log stream, fetches settled
MaxSteps == 5

\* register() calls in one behaviour
MaxRegistrations == 1

\* fetch() calls of dispatches made from outside the listener that settle in
\* one behaviour
MaxSettled == 1

\* dispatch() calls made from outside the listener in one behaviour
MaxDispatchCalls == 1

\* milliseconds between two readings of the clock by different handlers
ClockStep == 600

\* notifications captured before the tables are queried
MaxCaptures == 3

\* registrations, dispatches and settled fetches of a run of the /webhooks
\* routes, together
MaxRegistrySteps == 3

\* the integers written and read back are 2^k - 1, 2^k, 2^k + 1 and their
\* negatives for k up to MaxPower, and 10^k - 1, 10^k and their negatives for
\* k up to MaxDecimals (2^64 has 20 decimal digits)
MaxPower == 64
MaxDecimals == 20

\* ------------------------------------------------------------------------
\* Program constants
\* ------------------------------------------------------------------------

\* subscriptionId: number | null = null
NULL == -1

PUBLIC_KEY_LENGTH == 32

\* ------------------------------------------------------------------------
\* Generic helpers
\* ------------------------------------------------------------------------

Min(a, b) == IF a < b THEN a ELSE b

\* Buffer.subarray(start, end): both ends are clamped to the buffer
Subarray(data, start, end) ==
  LET s == Min(start, Len(data))
      e == Min(end, Len(data))
  IN IF e <= s THEN <<>> ELSE SubSeq(data, s + 1, e)

Repeat(b, n) == [i \in 1..n |-> b]

\* ------------------------------------------------------------------------
\* Event discriminator map (event-listener.ts:11-34)
\* ------------------------------------------------------------------------

EVENT_NAMES ==
  << "StablecoinInitialized", "TokensMinted", "TokensBurned", "AccountFrozen",
     "AccountThawed", "StablecoinPaused", "StablecoinUnpaused", "RolesUpdated",
     "MinterUpdated", "AuthorityTransferred", "AddedToBlacklist",
     "RemovedFromBlacklist", "TokensSeized" >>

EventNameSet == { EVENT_NAMES[i] : i \in 1..Len(EVENT_NAMES) }

\* sha256("event:<EventName>")[0..8], the hash being evaluated outside the model
EventDiscriminator(name) ==
  CASE name = "StablecoinInitialized" -> <<238, 217, 135, 14, 147, 33, 221, 169>>
    [] name = "TokensMinted"          -> <<207, 212, 128, 194, 175, 54, 64, 24>>
    [] name = "TokensBurned"          -> <<230, 255, 34, 113, 226, 53, 227, 9>>
    [] name = "AccountFrozen"         -> <<221, 214, 59, 29, 246, 50, 119, 206>>
    [] name = "AccountThawed"         -> <<49, 63, 73, 105, 129, 190, 40, 119>>
    [] name = "StablecoinPaused"      -> <<72, 123, 16, 187, 50, 214, 82, 198>>
    [] name = "StablecoinUnpaused"    -> <<183, 80, 65, 60, 128, 109, 155, 155>>
    [] name = "RolesUpdated"          -> <<81, 37, 176, 32, 30, 204, 251, 246>>
    [] name = "MinterUpdated"         -> <<8, 124, 66, 45, 176, 53, 49, 153>>
    [] name = "AuthorityTransferred"  -> <<245, 109, 179, 54, 135, 92, 22, 64>>
    [] name = "AddedToBlacklist"      -> <<3, 196, 78, 136, 111, 197, 188, 114>>
    [] name = "RemovedFromBlacklist"  -> <<55, 136, 25, 65, 199, 36, 146, 33>>
    [] name = "TokensSeized"          -> <<51, 129, 131, 114, 206, 234, 140, 122>>

\* DISCRIMINATOR_MAP.get(disc): the event names registered under disc
\* (the empty set when disc is not registered)
DISCRIMINATOR_MAP(disc) ==
  { name \in EventNameSet : EventDiscriminator(name) = disc }

\* ------------------------------------------------------------------------
\* Decimal rendering of 64-bit integers (BigInt.prototype.toString)
\* ------------------------------------------------------------------------

RECURSIVE CarryDigits(_)
CarryDigits(c) ==
  IF c = 0 THEN <<>> ELSE Append(CarryDigits(c \div 10), c % 10)

\* digits * m + carry on a most-significant-first digit sequence
\* (the empty sequence is zero)
RECURSIVE DecMulAdd(_, _, _)
DecMulAdd(digits, m, carry) ==
  IF digits = <<>> THEN CarryDigits(carry)
  ELSE LET v == digits[Len(digits)] * m + carry
       IN Append(DecMulAdd(SubSeq(digits, 1, Len(digits) - 1), m, v \div 10),
                 v % 10)

\* the digits of the unsigned value of little-endian bytes
RECURSIVE DecOfLE(_)
DecOfLE(bytes) ==
  IF bytes = <<>> THEN <<>>
  ELSE DecMulAdd(DecOfLE(Tail(bytes)), 256, Head(bytes))

\* two's complement negation of little-endian bytes: invert, then add one
RECURSIVE NegateLE(_, _)
NegateLE(bytes, carry) ==
  IF bytes = <<>> THEN <<>>
  ELSE LET v == (255 - Head(bytes)) + carry
       IN <<v % 256>> \o NegateLE(Tail(bytes), v \div 256)

DecString(neg, digits) ==
  [neg |-> neg, digits |-> IF digits = <<>> THEN <<0>> ELSE digits]

\* ------------------------------------------------------------------------
\* Borsh deserialization helpers (event-listener.ts:38-61)
\* A read yields [err, val, off]: err is TRUE when the read throws.
\* ------------------------------------------------------------------------

Thrown == [err |-> TRUE, val |-> <<>>, off |-> 0]

Read(val, off) == [err |-> FALSE, val |-> val, off |-> off]

\* new PublicKey(bytes).toBase58(): the bytes are taken as a big-endian number
\* of at most 32 bytes and rendered left-padded to 32 bytes
readPubkey(data, offset) ==
  LET sub == Subarray(data, offset, offset + PUBLIC_KEY_LENGTH)
  IN Read([pubkey |-> Repeat(0, PUBLIC_KEY_LENGTH - Len(sub)) \o sub],
          offset + PUBLIC_KEY_LENGTH)

\* Buffer.readBigUInt64LE throws a RangeError unless offset + 8 <= length
\* a readU64 that reads the eight bytes as a signed integer
readU64_AsSigned(data, offset) ==
  IF offset + 8 > Len(data) THEN Thrown
  ELSE LET bytes == SubSeq(data, offset + 1, offset + 8)
           neg == bytes[8] >= 128
       IN Read([dec |-> IF neg THEN DecString(TRUE, DecOfLE(NegateLE(bytes, 1)))
                               ELSE DecString(FALSE, DecOfLE(bytes))],
               offset + 8)

readU64(data, offset) ==
  IF offset + 8 > Len(data) THEN Thrown
  ELSE Read([dec |-> DecString(FALSE, DecOfLE(SubSeq(data, offset + 1, offset + 8)))],
            offset + 8)

\* a read of eight bytes that takes the bytes past the end as zero
readI64_Padded(data, offset) ==
  LET have == Subarray(data, offset, offset + 8)
      bytes == have \o Repeat(0, 8 - Len(have))
      neg == bytes[8] >= 128
  IN Read([dec |-> IF neg THEN DecString(TRUE, DecOfLE(NegateLE(bytes, 1)))
                          ELSE DecString(FALSE, DecOfLE(bytes))],
          offset + 8)

readI64(data, offset) ==
  IF offset + 8 > Len(data) THEN Thrown
  ELSE LET bytes == SubSeq(data, offset + 1, offset + 8)
           neg == bytes[8] >= 128
       IN Read([dec |-> IF neg THEN DecString(TRUE, DecOfLE(NegateLE(bytes, 1)))
                               ELSE DecString(FALSE, DecOfLE(bytes))],
               offset + 8)

\* data[offset] !== 0: past the end data[offset] is undefined, which is not 0
readBool(data, offset) ==
  Read([bool |-> IF offset < Len(data) THEN data[offset + 1] # 0 ELSE TRUE],
       offset + 1)

\* Buffer.readUInt32LE of four bytes; TLC's integers are 32 bits wide, so a
\* length of 2^24 or more is kept as 2^24: every buffer of the model is far
\* shorter, and the reads that follow depend on the offset only through its
\* position relative to the end of the buffer
UInt32LE(b) ==
  IF b[4] # 0 THEN 16777216 ELSE b[1] + 256 * b[2] + 65536 * b[3]

readString(data, offset) ==
  IF offset + 4 > Len(data) THEN Thrown
  ELSE LET len == UInt32LE(SubSeq(data, offset + 1, offset + 4))
       IN Read([str |-> Subarray(data, offset + 4, offset + 4 + len)],
               offset + 4 + len)

\* ------------------------------------------------------------------------
\* Borsh serialization of 64-bit integers (sdk/core/src/utils.ts:19-31).
\* A bigint is [neg, digits], digits being its decimal digits without leading
\* zeros (<<0>> for zero); a write yields [err, buf].
\* ------------------------------------------------------------------------

\* the quotient and the remainder of digits by 256, by long division from
\* digit i on; rem is the remainder and q the quotient digits so far
RECURSIVE DecDivMod256(_, _, _, _)
DecDivMod256(digits, i, rem, q) ==
  IF i > Len(digits) THEN [q |-> q, r |-> rem]
  ELSE LET v == rem * 10 + digits[i]
       IN DecDivMod256(digits, i + 1, v % 256, Append(q, v \div 256))

\* the count low bytes of the value of digits, least significant first, and
\* what is left of the value above them
RECURSIVE LowBytes(_, _)
LowBytes(digits, count) ==
  IF count = 0 THEN [bytes |-> <<>>, rest |-> digits]
  ELSE LET dm == DecDivMod256(digits, 1, 0, <<>>)
           up == LowBytes(dm.q, count - 1)
       IN [bytes |-> <<dm.r>> \o up.bytes, rest |-> up.rest]

IsZero(digits) == \A i \in 1..Len(digits) : digits[i] = 0

\* Buffer.alloc(8); buf.writeBigUInt64LE(n): a RangeError unless
\* 0 <= n < 2^64
serializeU64(n) ==
  LET low == LowBytes(n.digits, 8)
  IN IF (n.neg /\ ~IsZero(n.digits)) \/ ~IsZero(low.rest)
     THEN [err |-> TRUE, buf |-> <<>>]
     ELSE [err |-> FALSE, buf |-> low.bytes]

\* Buffer.alloc(8); buf.writeBigInt64LE(n): a RangeError unless
\* -2^63 <= n < 2^63; a negative n is written in two's complement
serializeI64(n) ==
  LET low == LowBytes(n.digits, 8)
      minimum == <<0, 0, 0, 0, 0, 0, 0, 128>>
  IN IF ~IsZero(low.rest) THEN [err |-> TRUE, buf |-> <<>>]
     ELSE IF n.neg /\ ~IsZero(n.digits)
     THEN IF low.bytes[8] >= 128 /\ low.bytes # minimum
          THEN [err |-> TRUE, buf |-> <<>>]
          ELSE [err |-> FALSE, buf |-> NegateLE(low.bytes, 1)]
     ELSE IF low.bytes[8] >= 128 THEN [err |-> TRUE, buf |-> <<>>]
          ELSE [err |-> FALSE, buf |-> low.bytes]

\* ------------------------------------------------------------------------
\* Event decoders (event-listener.ts:70-182)
\* ------------------------------------------------------------------------

\* the reads decodeEvent makes for each event, in order
EventSchema(name) ==
  CASE name = "StablecoinInitialized" ->
         << <<"stablecoin", "pubkey">>, <<"mint", "pubkey">>,
            <<"authority", "pubkey">>, <<"name", "string">>,
            <<"symbol", "string">>, <<"is_sss2", "bool">>,
            <<"timestamp", "i64">> >>
    [] name = "TokensMinted" ->
         << <<"stablecoin", "pubkey">>, <<"minter", "pubkey">>,
            <<"recipient", "pubkey">>, <<"amount", "u64">>,
            <<"total_minted", "u64">>, <<"timestamp", "i64">> >>
    [] name = "TokensBurned" ->
         << <<"stablecoin", "pubkey">>, <<"burner", "pubkey">>,
            <<"amount", "u64">>, <<"total_burned", "u64">>,
            <<"timestamp", "i64">> >>
    [] name = "AccountFrozen" ->
         << <<"stablecoin", "pubkey">>, <<"account", "pubkey">>,
            <<"frozen_by", "pubkey">>, <<"timestamp", "i64">> >>
    [] name = "AccountThawed" ->
         << <<"stablecoin", "pubkey">>, <<"account", "pubkey">>,
            <<"thawed_by", "pubkey">>, <<"timestamp", "i64">> >>
    [] name = "StablecoinPaused" ->
         << <<"stablecoin", "pubkey">>, <<"paused_by", "pubkey">>,
            <<"timestamp", "i64">> >>
    [] name = "StablecoinUnpaused" ->
         << <<"stablecoin", "pubkey">>, <<"unpaused_by", "pubkey">>,
            <<"timestamp", "i64">> >>
    [] name = "RolesUpdated" ->
         << <<"stablecoin", "pubkey">>, <<"holder", "pubkey">>,
            <<"is_minter", "bool">>, <<"is_burner", "bool">>,
            <<"is_pauser", "bool">>, <<"is_blacklister", "bool">>,
            <<"is_seizer", "bool">>, <<"updated_by", "pubkey">>,
            <<"timestamp", "i64">> >>
    [] name = "MinterUpdated" ->
         << <<"stablecoin", "pubkey">>, <<"minter", "pubkey">>,
            <<"new_quota", "u64">>, <<"updated_by", "pubkey">>,
            <<"timestamp", "i64">> >>
    [] name = "AuthorityTransferred" ->
         << <<"stablecoin", "pubkey">>, <<"previous_authority", "pubkey">>,
            <<"new_authority", "pubkey">>, <<"timestamp", "i64">> >>
    [] name = "AddedToBlacklist" ->
         << <<"stablecoin", "pubkey">>, <<"address", "pubkey">>,
            <<"reason", "string">>, <<"blacklisted_by", "pubkey">>,
            <<"timestamp", "i64">> >>
    [] name = "RemovedFromBlacklist" ->
         << <<"stablecoin", "pubkey">>, <<"address", "pubkey">>,
            <<"removed_by", "pubkey">>, <<"timestamp", "i64">> >>
    [] name = "TokensSeized" ->
         << <<"stablecoin", "pubkey">>, <<"from", "pubkey">>,
            <<"to", "pubkey">>, <<"amount", "u64">>,
            <<"seized_by", "pubkey">>, <<"timestamp", "i64">> >>

ReadField(kind, data, offset) ==
  CASE kind = "pubkey" -> readPubkey(data, offset)
    [] kind = "u64"    -> readU64(data, offset)
    [] kind = "i64"    -> readI64(data, offset)
    [] kind = "bool"   -> readBool(data, offset)
    [] kind = "string" -> readString(data, offset)

\* the reads of schema from position i on; fields is the ordered list of
\* [k, v] pairs assigned so far
RECURSIVE DecodeFrom(_, _, _, _, _)
DecodeFrom(schema, i, data, offset, fields) ==
  IF i > Len(schema) THEN [err |-> FALSE, fields |-> fields]
  ELSE LET r == ReadField(schema[i][2], data, offset)
       IN IF r.err THEN [err |-> TRUE, fields |-> <<>>]
          ELSE DecodeFrom(schema, i + 1, data, r.off,
                          Append(fields, [k |-> schema[i][1], v |-> r.val]))

decodeEvent(name, data) == DecodeFrom(EventSchema(name), 1, data, 0, <<>>)

\* f.<key> of a decoded field list; Undefined when the key is absent
Undefined == [undefined |-> TRUE]

Field(fields, key) ==
  IF \E i \in 1..Len(fields) : fields[i].k = key
  THEN fields[CHOOSE i \in 1..Len(fields) : fields[i].k = key].v
  ELSE Undefined

\* decodeAnchorEvent (event-listener.ts:354-370): null is [decoded |-> FALSE]
NullEvent == [decoded |-> FALSE]

\* a decodeAnchorEvent without the "if (!eventName) return null" test:
\* decodeEvent falls through its switch and returns no field
decodeAnchorEvent_NoNameCheck(buffer) ==
  IF Len(buffer) < 8 THEN NullEvent
  ELSE LET names == DISCRIMINATOR_MAP(SubSeq(buffer, 1, 8))
       IN IF names = {}
          THEN [decoded |-> TRUE, type |-> "undefined", fields |-> <<>>]
          ELSE LET eventName == CHOOSE n \in names : TRUE
                   r == decodeEvent(eventName, Subarray(buffer, 8, Len(buffer)))
               IN IF r.err THEN NullEvent
                  ELSE [decoded |-> TRUE, type |-> eventName, fields |-> r.fields]

decodeAnchorEvent(buffer) ==
  IF Len(buffer) < 8 THEN NullEvent
  ELSE LET names == DISCRIMINATOR_MAP(SubSeq(buffer, 1, 8))
       IN IF names = {} THEN NullEvent
          ELSE LET eventName == CHOOSE n \in names : TRUE
                   r == decodeEvent(eventName, Subarray(buffer, 8, Len(buffer)))
               IN IF r.err THEN NullEvent
                  ELSE [decoded |-> TRUE, type |-> eventName, fields |-> r.fields]

\* ------------------------------------------------------------------------
\* Operation mapping (event-listener.ts:193-272): the operation name and the
\* fields read as actor, amount and target ("" where the rule yields undefined)
\* ------------------------------------------------------------------------

Mapping(operation, actor, amount, target) ==
  [operation |-> operation, actor |-> actor, amount |-> amount, target |-> target]

\* a table in which the rule of TokensMinted reads actor and target the
\* other way round
OPERATION_MAP_MintSwapped(name) ==
  CASE name = "StablecoinInitialized" -> Mapping("initialize", "authority", "", "")
    [] name = "TokensMinted"          -> Mapping("mint", "recipient", "amount", "minter")
    [] name = "TokensBurned"          -> Mapping("burn", "burner", "amount", "")
    [] name = "AccountFrozen"         -> Mapping("freeze", "frozen_by", "", "account")
    [] name = "AccountThawed"         -> Mapping("thaw", "thawed_by", "", "account")
    [] name = "StablecoinPaused"      -> Mapping("pause", "paused_by", "", "")
    [] name = "StablecoinUnpaused"    -> Mapping("unpause", "unpaused_by", "", "")
    [] name = "TokensSeized"          -> Mapping("seize", "seized_by", "amount", "from")
    [] name = "AddedToBlacklist"      -> Mapping("blacklist_add", "blacklisted_by", "", "address")
    [] name = "RemovedFromBlacklist"  -> Mapping("blacklist_remove", "removed_by", "", "address")
    [] name = "AuthorityTransferred"  ->
         Mapping("transfer_authority", "previous_authority", "", "new_authority")
    [] name = "RolesUpdated"          -> Mapping("update_roles", "updated_by", "", "holder")
    [] name = "MinterUpdated"         -> Mapping("update_minter", "updated_by", "new_quota", "minter")

\* a table in which the rule of RolesUpdated names as actor a field the event
\* does not have
OPERATION_MAP_ForeignActor(name) ==
  IF name = "RolesUpdated"
  THEN Mapping("update_roles", "authority", "", "holder")
  ELSE OPERATION_MAP_MintSwapped(name)

OPERATION_MAP(name) ==
  CASE name = "StablecoinInitialized" -> Mapping("initialize", "authority", "", "")
    [] name = "TokensMinted"          -> Mapping("mint", "minter", "amount", "recipient")
    [] name = "TokensBurned"          -> Mapping("burn", "burner", "amount", "")
    [] name = "AccountFrozen"         -> Mapping("freeze", "frozen_by", "", "account")
    [] name = "AccountThawed"         -> Mapping("thaw", "thawed_by", "", "account")
    [] name = "StablecoinPaused"      -> Mapping("pause", "paused_by", "", "")
    [] name = "StablecoinUnpaused"    -> Mapping("unpause", "unpaused_by", "", "")
    [] name = "TokensSeized"          -> Mapping("seize", "seized_by", "amount", "from")
    [] name = "AddedToBlacklist"      -> Mapping("blacklist_add", "blacklisted_by", "", "address")
    [] name = "RemovedFromBlacklist"  -> Mapping("blacklist_remove", "removed_by", "", "address")
    [] name = "AuthorityTransferred"  ->
         Mapping("transfer_authority", "previous_authority", "", "new_authority")
    [] name = "RolesUpdated"          -> Mapping("update_roles", "updated_by", "", "holder")
    [] name = "MinterUpdated"         -> Mapping("update_minter", "updated_by", "new_quota", "minter")

\* mapping.amount(f) / mapping.target(f)
MappedField(fields, key) == IF key = "" THEN Undefined ELSE Field(fields, key)

\* ------------------------------------------------------------------------
\* Audit store (db/schema.ts).  A table is the sequence of its rows in id
\* order; an insert yields [threw, rows].
\* ------------------------------------------------------------------------

SqlNull == [null |-> TRUE]

\* amount ?? null
OrNull(v) == IF v = Undefined THEN SqlNull ELSE v

HasSignature(rows, signature) ==
  \E i \in 1..Len(rows) : rows[i].signature = signature

\* INSERT OR IGNORE under "signature TEXT NOT NULL UNIQUE" and
\* "id INTEGER PRIMARY KEY AUTOINCREMENT": a row whose signature is stored is
\* skipped without an error; no row of these tables is ever deleted, so the
\* next id is the row count plus one
InsertOrIgnore(rows, row) ==
  IF HasSignature(rows, row.signature)
  THEN [threw |-> FALSE, rows |-> rows]
  ELSE [threw |-> FALSE,
        rows |-> Append(rows, [row EXCEPT !.id = Len(rows) + 1])]

\* a plain INSERT: the UNIQUE constraint raises SQLITE_CONSTRAINT
InsertOrThrow(rows, row) ==
  IF HasSignature(rows, row.signature)
  THEN [threw |-> TRUE, rows |-> rows]
  ELSE [threw |-> FALSE,
        rows |-> Append(rows, [row EXCEPT !.id = Len(rows) + 1])]

\* an INSERT into a table that lost the UNIQUE constraint
InsertAlways(rows, row) ==
  [threw |-> FALSE, rows |-> Append(rows, [row EXCEPT !.id = Len(rows) + 1])]

EventRow(eventType, stablecoin, data, signature, slot, timestamp) ==
  [id |-> 0, event_type |-> eventType, stablecoin |-> stablecoin, data |-> data,
   signature |-> signature, slot |-> slot, timestamp |-> timestamp]

OperationRow(operation, mint, actor, signature, amount, target) ==
  [id |-> 0, operation |-> operation, mint |-> mint, actor |-> actor,
   amount |-> OrNull(amount), target |-> OrNull(target),
   signature |-> signature, status |-> "confirmed"]

\* INSERT OR REPLACE: the stored row of the signature gives way to the new one
InsertOrReplace(rows, row) ==
  [threw |-> FALSE,
   rows |-> Append(SelectSeq(rows, LAMBDA r : r.signature # row.signature),
                   [row EXCEPT !.id = Len(rows) + 1])]

insertEvent_Replace(rows, eventType, stablecoin, data, signature, slot, timestamp) ==
  InsertOrReplace(rows, EventRow(eventType, stablecoin, data, signature, slot, timestamp))

insertEvent_NoUnique(rows, eventType, stablecoin, data, signature, slot, timestamp) ==
  InsertAlways(rows, EventRow(eventType, stablecoin, data, signature, slot, timestamp))

insertEvent(rows, eventType, stablecoin, data, signature, slot, timestamp) ==
  InsertOrIgnore(rows, EventRow(eventType, stablecoin, data, signature, slot, timestamp))

insertOperation_Plain(rows, operation, mint, actor, signature, amount, target) ==
  InsertOrThrow(rows, OperationRow(operation, mint, actor, signature, amount, target))

insertOperation(rows, operation, mint, actor, signature, amount, target) ==
  InsertOrIgnore(rows, OperationRow(operation, mint, actor, signature, amount, target))

Reverse(rows) == [i \in 1..Len(rows) |-> rows[Len(rows) + 1 - i]]

\* ORDER BY id DESC LIMIT limit OFFSET offset.  SQLite: a negative LIMIT puts
\* no upper bound on the number of rows, a negative OFFSET is taken as 0.
Page(rows, limit, offset) ==
  LET desc == Reverse(rows)
      skip == IF offset < 0 THEN 0 ELSE offset
      first == Min(skip, Len(desc)) + 1
      last == IF limit < 0 THEN Len(desc) ELSE Min(skip + limit, Len(desc))
  IN IF last < first THEN <<>> ELSE SubSeq(desc, first, last)

\* the empty string, which "if (stablecoin)" takes as no subject
EmptyText == [text |-> ""]

\* if (stablecoin) / if (mint)
Truthy(subject) == subject # Undefined /\ subject # EmptyText

\* getEvents (schema.ts:89-95); stablecoin is Undefined when not given
getEvents(rows, stablecoin, limit, offset) ==
  IF Truthy(stablecoin)
  THEN Page(SelectSeq(rows, LAMBDA r : r.stablecoin = stablecoin), limit, offset)
  ELSE Page(rows, limit, offset)

\* getOperations (schema.ts:97-103)
getOperations(rows, mint, limit, offset) ==
  IF Truthy(mint)
  THEN Page(SelectSeq(rows, LAMBDA r : r.mint = mint), limit, offset)
  ELSE Page(rows, limit, offset)

\* limit = 50
DefaultLimit == 50

\* ------------------------------------------------------------------------
\* Webhook registrations and dispatch (services/webhook.ts)
\* ------------------------------------------------------------------------

\* events.join(",")
RECURSIVE Join(_)
Join(arr) ==
  IF arr = <<>> THEN <<>>
  ELSE IF Len(arr) = 1 THEN arr[1]
  ELSE arr[1] \o <<",">> \o Join(Tail(arr))

\* text.split(","): the pieces between the commas
RECURSIVE Split(_, _)
Split(text, piece) ==
  IF text = <<>> THEN <<piece>>
  ELSE IF Head(text) = "," THEN <<piece>> \o Split(Tail(text), <<>>)
  ELSE Split(Tail(text), Append(piece, Head(text)))

\* e.trim()
RECURSIVE Trim(_)
Trim(str) ==
  IF str = <<>> THEN str
  ELSE IF Head(str) = " " THEN Trim(Tail(str))
  ELSE IF str[Len(str)] = " " THEN Trim(SubSeq(str, 1, Len(str) - 1))
  ELSE str

\* webhook.events.split(",").map((e) => e.trim())
SubscribedEvents(webhook) ==
  LET parts == Split(webhook.events, <<>>)
  IN [i \in 1..Len(parts) |-> Trim(parts[i])]

Includes(arr, str) == \E i \in 1..Len(arr) : arr[i] = str

\* the negation of the loop's "continue" test (webhook.ts:26)
Subscribed(webhook, eventType) ==
  LET subscribedEvents == SubscribedEvents(webhook)
  IN Includes(subscribedEvents, <<"*">>) \/ Includes(subscribedEvents, <<eventType>>)

\* a SELECT without the WHERE clause
SelectActive_All(rows) == rows

\* SELECT * FROM webhooks WHERE active = 1
RECURSIVE SelectActive(_)
SelectActive(rows) ==
  IF rows = <<>> THEN <<>>
  ELSE IF Head(rows).active = 1 THEN <<Head(rows)>> \o SelectActive(Tail(rows))
  ELSE SelectActive(Tail(rows))

\* the position of the next webhook of hooks, from position from on, that the
\* loop does not skip; 0 when the loop ends
RECURSIVE NextSubscribed(_, _, _)
NextSubscribed(hooks, from, eventType) ==
  IF from > Len(hooks) THEN 0
  ELSE IF Subscribed(hooks[from], eventType) THEN from
  ELSE NextSubscribed(hooks, from + 1, eventType)

NoSecret == "<null>"

\* the row INSERT INTO webhooks (url, events, secret) stores for
\* register(url, eventList, secret) (webhook.ts:51-53): events.join(","),
\* secret ?? null, active by its default 1.  given is history: the event list
\* as register() was given it.
WebhookRow(id, url, eventList, secret) ==
  [id |-> id, url |-> url, events |-> Join(eventList), active |-> 1,
   secret |-> secret, given |-> eventList]

\* webhook.secret ? { "X-Webhook-Secret": webhook.secret } : {}
SecretHeader(webhook) ==
  IF webhook.secret = NoSecret \/ webhook.secret = ""
  THEN <<>> ELSE <<webhook.secret>>

\* the fetch() call of one loop iteration (webhook.ts:29-36)
FetchCall(dispatchId, webhook, eventType, payload, nowMs) ==
  [dispatch |-> dispatchId, webhook |-> webhook.id, url |-> webhook.url,
   secretHeader |-> SecretHeader(webhook),
   body |-> [event |-> eventType, data |-> payload, timestamp |-> nowMs],
   outcome |-> "pending"]

\* dispatch() up to its first await: the SELECT, then the loop up to the first
\* fetch.  st is [dispatches, attempts]; table is the webhooks table.
\* rejected: whether the promise dispatch() returned has rejected.
DispatchCall(st, table, eventType, payload, nowMs) ==
  LET hooks == SelectActive(table)
      pos == NextSubscribed(hooks, 1, eventType)
      id == Len(st.dispatches) + 1
  IN [dispatches |-> Append(st.dispatches,
                            [eventType |-> eventType, payload |-> payload,
                             hooks |-> hooks, pos |-> pos, table |-> table,
                             rejected |-> FALSE]),
      attempts |-> IF pos = 0 THEN st.attempts
                   ELSE Append(st.attempts,
                               FetchCall(id, hooks[pos], eventType, payload, nowMs))]

\* ------------------------------------------------------------------------
\* Inputs: log lines, notifications, registrations
\* ------------------------------------------------------------------------

Key(b) == Repeat(b, PUBLIC_KEY_LENGTH)

\* TokensMinted { stablecoin 1.., minter 2.., recipient 3.., amount 2^64 - 1,
\*                total_minted 2^32, timestamp -2 }
MintedBytes ==
  EventDiscriminator("TokensMinted") \o Key(1) \o Key(2) \o Key(3)
    \o <<255, 255, 255, 255, 255, 255, 255, 255>>
    \o <<0, 0, 0, 0, 1, 0, 0, 0>>
    \o <<254, 255, 255, 255, 255, 255, 255, 255>>

\* TokensBurned { stablecoin 1.., burner 4.., amount 300, total_burned 300,
\*                timestamp 7 }
BurnedBytes ==
  EventDiscriminator("TokensBurned") \o Key(1) \o Key(4)
    \o <<44, 1, 0, 0, 0, 0, 0, 0>> \o <<44, 1, 0, 0, 0, 0, 0, 0>>
    \o <<7, 0, 0, 0, 0, 0, 0, 0>>

\* AddedToBlacklist { stablecoin 5.., address 6.., reason "ab",
\*                    blacklisted_by 7.., timestamp 1 }
BlacklistBytes ==
  EventDiscriminator("AddedToBlacklist") \o Key(5) \o Key(6)
    \o <<2, 0, 0, 0, 97, 98>> \o Key(7) \o <<1, 0, 0, 0, 0, 0, 0, 0>>

DataLine(bytes) == [prefix |-> "Program data: ", payload |-> bytes]

LineMinted == DataLine(MintedBytes)
LineBurned == DataLine(BurnedBytes)
LineBlacklist == DataLine(BlacklistBytes)
\* an event cut short inside its last field
LineTruncated == DataLine(SubSeq(MintedBytes, 1, Len(MintedBytes) - 3))
\* a string length prefix that points past the end of the buffer
LineBadLength ==
  DataLine(EventDiscriminator("AddedToBlacklist") \o Key(5) \o Key(6)
             \o <<200, 0, 0, 0, 97, 98>> \o Key(7) \o <<1, 0, 0, 0, 0, 0, 0, 0>>)
\* fewer than 8 bytes
LineShort == DataLine(<<207, 212, 128, 194>>)
\* 8 bytes that are no registered discriminator
LineUnknown == DataLine(<<1, 2, 3, 4, 5, 6, 7, 8>> \o Key(1))
\* a line of another kind
LineInvoke == [prefix |-> "Program log: ", payload |-> MintedBytes]

\* the bytes the program emits for an event of each type (Borsh: 32-byte
\* keys, little-endian integers, one byte per bool, a 4-byte little-endian
\* length before the bytes of a string).  The i-th field holds: key i,i,..;
\* u64 300; i64 -2; bool true at even i; a two-byte string, whose length
\* prefix is strLen (the right one is <<2, 0, 0, 0>>)
SampleField(kind, i, strLen) ==
  CASE kind = "pubkey" -> Key(i)
    [] kind = "u64"    -> <<44, 1, 0, 0, 0, 0, 0, 0>>
    [] kind = "i64"    -> <<254, 255, 255, 255, 255, 255, 255, 255>>
    [] kind = "bool"   -> <<(i + 1) % 2>>
    [] kind = "string" -> strLen \o <<97, 98>>

RECURSIVE SampleFields(_, _, _)
SampleFields(schema, i, strLen) ==
  IF i > Len(schema) THEN <<>>
  ELSE SampleField(schema[i][2], i, strLen) \o SampleFields(schema, i + 1, strLen)

SampleEvent(name, strLen) ==
  EventDiscriminator(name) \o SampleFields(EventSchema(name), 1, strLen)

ValidEvent(name) == SampleEvent(name, <<2, 0, 0, 0>>)

\* string length prefixes that point past the end of the buffer: 200 and 2^24
OverlongLengths == { <<200, 0, 0, 0>>, <<0, 0, 0, 1>> }

Prefixes(bytes) == { SubSeq(bytes, 1, n) : n \in 0..Len(bytes) }

\* bytes with one byte of the discriminator changed
OtherDiscriminators(bytes) ==
  { [bytes EXCEPT ![i] = (bytes[i] + 1) % 256] : i \in 1..8 }

\* the buffers handed to the decoder: every event whole, every event cut at
\* every length, every event under a changed discriminator, every event with
\* overlong string lengths
DecodeInputs ==
  UNION { Prefixes(ValidEvent(name)) \cup OtherDiscriminators(ValidEvent(name))
            \cup { SampleEvent(name, strLen) : strLen \in OverlongLengths }
          : name \in EventNameSet }

\* the decimal digits of 2^k and of 10^k
Pow2(k) == DecOfLE(Repeat(0, k \div 8) \o <<2 ^ (k % 8)>>)

Pow10(k) == <<1>> \o Repeat(0, k)

\* the digits of a positive value less one
RECURSIVE DecPred(_)
DecPred(digits) ==
  LET n == Len(digits)
  IN IF digits[n] > 0 THEN [digits EXCEPT ![n] = @ - 1]
     ELSE LET front == DecPred(SubSeq(digits, 1, n - 1))
          IN (IF front = <<0>> THEN <<>> ELSE front) \o <<9>>

\* the bigints handed to serializeU64 and serializeI64
CodecMagnitudes ==
  UNION { { DecPred(Pow2(k)), Pow2(k), DecMulAdd(Pow2(k), 1, 1) } : k \in 0..MaxPower }
    \cup UNION { { DecPred(Pow10(k)), Pow10(k) } : k \in 0..MaxDecimals }
    \cup { <<1, 2, 3, 4, 5, 6, 7, 8, 9, 0, 1, 2, 3, 4, 5, 6, 7, 8, 9>>,
           <<3, 0, 0>>, <<6, 5, 5, 3, 5>> }

CodecValues ==
  { [neg |-> FALSE, digits |-> m] : m \in CodecMagnitudes }
    \cup { [neg |-> TRUE, digits |-> m] : m \in CodecMagnitudes \ {<<0>>} }

\* log lines of other kinds
LineNested == [prefix |-> "Program log: Program data: ", payload |-> MintedBytes]
LineLower == [prefix |-> "program data: ", payload |-> MintedBytes]
LineSuccess == [prefix |-> "Program 2D8s3bH6 success", payload |-> <<>>]

OtherLines == { LineInvoke, LineNested, LineLower, LineSuccess }

\* the log line lists handed to the callback on their own: one data line per
\* decoder input, and lists of lines of other kinds only
FeedInputs ==
  { <<DataLine(bytes)>> : bytes \in DecodeInputs }
    \cup { <<>>, <<LineInvoke>>, <<LineNested>>, <<LineLower>>,
           <<LineInvoke, LineNested, LineLower, LineSuccess>> }

LogLines ==
  { LineMinted, LineBurned, LineBlacklist, LineTruncated, LineBadLength,
    LineShort, LineUnknown, LineInvoke }
    \cup OtherLines \cup { DataLine(bytes) : bytes \in DecodeInputs }

Notification(signature, err, logs) ==
  [signature |-> signature, err |-> err, logs |-> logs]

\* ctx.slot of the notifications, by number: the slot at which the transaction
\* was captured, the second argument connection.onLogs hands to its callback
CaptureSlot == <<12345, 12345, 12346, 12346>>

\* the notifications the log stream may deliver, by number
Notifications ==
  << Notification("sigA", FALSE, <<LineInvoke, LineMinted>>),
     Notification("sigA", FALSE, <<LineMinted, LineBurned>>),
     Notification("sigB", FALSE,
                  <<LineUnknown, LineTruncated, LineShort, LineBadLength,
                    LineBlacklist>>),
     Notification("sigB", TRUE, <<LineMinted, LineBurned>>) >>

\* register(url, events, secret): the argument triples tried
RegisterInputs ==
  { <<"https://a", << <<"*">> >>, "k2">>,
    <<"https://b", << <<"TokensMinted">>, <<"TokensBurned">> >>, NoSecret>> }

\* ------------------------------------------------------------------------
\* State
\* ------------------------------------------------------------------------

VARIABLES
  events,          \* table events
  operations,      \* table operations
  webhooks,        \* table webhooks
  webhookSeq,      \* AUTOINCREMENT sequence of table webhooks
  subscriptionId,  \* EventListener.subscriptionId
  listeners,       \* the connection's onLogs callbacks, by subscription id
  nextSubId,       \* the connection's next subscription id
  webhookService,  \* whether the listener was constructed with a WebhookService
  dispatches,      \* the dispatch() calls made so far, each with its position
  attempts,        \* the fetch() calls made so far, each with its outcome
  settled,         \* the number of fetch() calls that have settled
  now,             \* Date.now()
  calls,           \* history: the start() / stop() calls made, in order
  removeCalls,     \* history: the number of removeOnLogsListener calls
  arrived,         \* history: the number of notifications delivered by the stream
  processed,       \* history: the callback invocations made
  lastCall         \* the outcome of the last direct call of the store

vars ==
  << events, operations, webhooks, webhookSeq, subscriptionId, listeners,
     nextSubId, webhookService, dispatches, attempts, settled, now, calls,
     removeCalls,
     arrived, processed, lastCall >>

storeVars == << events, operations >>
hookVars == << webhooks, webhookSeq >>
listenerVars == << subscriptionId, listeners, nextSubId, calls, removeCalls >>
dispatchVars == << dispatches, attempts, settled >>

\* ------------------------------------------------------------------------
\* EventListener (event-listener.ts:276-372)
\* ------------------------------------------------------------------------

\* a test for the prefix anywhere in the line (log.includes)
StartsWithProgramData_Includes(log) ==
  log.prefix \in {"Program data: ", "Program log: Program data: "}

\* log.startsWith("Program data:")
StartsWithProgramData(log) == log.prefix = "Program data: "

\* Buffer.from(log.replace("Program data: ", "").trim(), "base64")
Base64Payload(log) == log.payload

\* this.decodeAnchorEvent(base64Data), tabulated over the log lines of the model
DecodedLine == [log \in LogLines |-> decodeAnchorEvent(Base64Payload(log))]

\* a loop body in which a line that does not decode ends the loop (an
\* exception that decodeAnchorEvent does not catch)
ProcessLine_AbortOnBad(st, log, signature, hasWebhookService, table, nowMs) ==
  IF st.threw \/ ~StartsWithProgramData(log) THEN st
  ELSE
    LET decoded == DecodedLine[log]
    IN IF ~decoded.decoded THEN [st EXCEPT !.threw = TRUE]
       ELSE
         LET stablecoinKey == Field(decoded.fields, "stablecoin")
             ev == insertEvent(st.events, decoded.type, stablecoinKey,
                               decoded.fields, signature, 0, nowMs \div 1000)
             mapping == OPERATION_MAP(decoded.type)
             op == insertOperation(st.operations, mapping.operation, stablecoinKey,
                                   Field(decoded.fields, mapping.actor), signature,
                                   MappedField(decoded.fields, mapping.amount),
                                   MappedField(decoded.fields, mapping.target))
         IN [st EXCEPT !.events = ev.rows, !.operations = op.rows]

\* a loop body that writes no row while a dispatch started earlier awaits a
\* delivery
ProcessLine_AfterDelivery(st, log, signature, hasWebhookService, table, nowMs) ==
  IF \/ st.threw \/ ~StartsWithProgramData(log)
     \/ \E d \in 1..Len(st.dispatches) : st.dispatches[d].pos # 0
  THEN st
  ELSE
    LET decoded == DecodedLine[log]
    IN IF ~decoded.decoded THEN st
       ELSE
         LET stablecoinKey == Field(decoded.fields, "stablecoin")
             ev == insertEvent(st.events, decoded.type, stablecoinKey,
                               decoded.fields, signature, 0, nowMs \div 1000)
             mapping == OPERATION_MAP(decoded.type)
             op == insertOperation(st.operations, mapping.operation, stablecoinKey,
                                   Field(decoded.fields, mapping.actor), signature,
                                   MappedField(decoded.fields, mapping.amount),
                                   MappedField(decoded.fields, mapping.target))
             payload == Append(decoded.fields,
                               [k |-> "signature", v |-> [text |-> signature]])
             ds == DispatchCall([dispatches |-> st.dispatches,
                                 attempts |-> st.attempts],
                                table, decoded.type, payload, nowMs)
         IN IF ev.threw THEN [st EXCEPT !.threw = TRUE]
            ELSE IF op.threw
            THEN [st EXCEPT !.events = ev.rows, !.threw = TRUE]
            ELSE IF hasWebhookService
            THEN [events |-> ev.rows, operations |-> op.rows,
                  dispatches |-> ds.dispatches, attempts |-> ds.attempts,
                  threw |-> FALSE]
            ELSE [st EXCEPT !.events = ev.rows, !.operations = op.rows]

\* the body of the loop of processLog for one log line (event-listener.ts:
\* 313-350).  st is [events, operations, dispatches, attempts, threw]; once an
\* exception is thrown (threw) the rest of the loop is not run.
ProcessLine(st, log, signature, hasWebhookService, table, nowMs) ==
  IF st.threw \/ ~StartsWithProgramData(log) THEN st
  ELSE
    LET decoded == DecodedLine[log]
    IN IF ~decoded.decoded THEN st
       ELSE
         LET stablecoinKey == Field(decoded.fields, "stablecoin")
             ev == insertEvent(st.events, decoded.type, stablecoinKey,
                               decoded.fields, signature, 0, nowMs \div 1000)
             mapping == OPERATION_MAP(decoded.type)
             op == insertOperation(st.operations, mapping.operation, stablecoinKey,
                                   Field(decoded.fields, mapping.actor), signature,
                                   MappedField(decoded.fields, mapping.amount),
                                   MappedField(decoded.fields, mapping.target))
             payload == Append(decoded.fields,
                               [k |-> "signature", v |-> [text |-> signature]])
             ds == DispatchCall([dispatches |-> st.dispatches,
                                 attempts |-> st.attempts],
                                table, decoded.type, payload, nowMs)
         IN IF ev.threw THEN [st EXCEPT !.threw = TRUE]
            ELSE IF op.threw
            THEN [st EXCEPT !.events = ev.rows, !.threw = TRUE]
            ELSE IF hasWebhookService
            THEN [events |-> ev.rows, operations |-> op.rows,
                  dispatches |-> ds.dispatches, attempts |-> ds.attempts,
                  threw |-> FALSE]
            ELSE [st EXCEPT !.events = ev.rows, !.operations = op.rows]

RECURSIVE ProcessLines(_, _, _, _, _, _, _)
ProcessLines(st, logs, i, signature, hasWebhookService, table, nowMs) ==
  IF i > Len(logs) THEN st
  ELSE ProcessLines(ProcessLine(st, logs[i], signature, hasWebhookService,
                                table, nowMs),
                    logs, i + 1, signature, hasWebhookService, table, nowMs)

\* a processLog that looks at the log lines of a failed transaction too
processLog_NoErrCheck(st, logInfo, hasWebhookService, table, nowMs) ==
  ProcessLines(st, logInfo.logs, 1, logInfo.signature, hasWebhookService,
               table, nowMs)

\* processLog (event-listener.ts:309-352)
processLog(st, logInfo, hasWebhookService, table, nowMs) ==
  IF logInfo.err THEN st
  ELSE ProcessLines(st, logInfo.logs, 1, logInfo.signature, hasWebhookService,
                    table, nowMs)

\* the onLogs callback (event-listener.ts:290-296): an exception of processLog
\* is logged and goes no further
Callback(st, logInfo, hasWebhookService, table, nowMs) ==
  [processLog(st, logInfo, hasWebhookService, table, nowMs) EXCEPT !.threw = FALSE]

\* the callbacks of subscriptions ids, each run on the notification in turn
RECURSIVE RunCallbacks(_, _, _, _, _, _)
RunCallbacks(st, ids, logInfo, hasWebhookService, table, nowMs) ==
  IF ids = {} THEN st
  ELSE LET id == CHOOSE x \in ids : \A y \in ids : x <= y
       IN RunCallbacks(Callback(st, logInfo, hasWebhookService, table, nowMs),
                       ids \ {id}, logInfo, hasWebhookService, table, nowMs)

PipelineState ==
  [events |-> events, operations |-> operations, dispatches |-> dispatches,
   attempts |-> attempts, threw |-> FALSE]

\* the history entries of one notification: one per callback invocation
RECURSIVE Invocations(_, _)
Invocations(ids, k) ==
  IF ids = {} THEN <<>>
  ELSE LET id == CHOOSE x \in ids : \A y \in ids : x <= y
       IN <<[n |-> k, sub |-> id, handle |-> subscriptionId,
             session |-> Len(SelectSeq(calls, LAMBDA c : c = "start"))]>>
            \o Invocations(ids \ {id}, k)

\* ------------------------------------------------------------------------
\* Initial state: the listener is constructed and not started; the database
\* file holds no event yet and the registrations of an earlier run of the
\* backend: register("https://off", ["*"], "k0"), later deactivated by hand
\* (active = 0; the schema's only way to deactivate one),
\* register("https://all", ["*"], "k1") and
\* register("https://mint", ["TokensMinted"])
\* ------------------------------------------------------------------------

InitialWebhooks ==
  << [WebhookRow(1, "https://off", << <<"*">> >>, "k0") EXCEPT !.active = 0],
     WebhookRow(2, "https://all", << <<"*">> >>, "k1"),
     WebhookRow(3, "https://mint", << <<"TokensMinted">> >>, NoSecret) >>

InitPipeline ==
  /\ events = <<>>
  /\ operations = <<>>
  /\ webhooks = InitialWebhooks
  /\ webhookSeq = Len(InitialWebhooks)
  /\ subscriptionId = NULL
  /\ listeners = {}
  /\ nextSubId = 0
  /\ webhookService \in BOOLEAN
  /\ settled = 0
  /\ dispatches = <<>>
  /\ attempts = <<>>
  /\ now = 0
  /\ calls = <<>>
  /\ removeCalls = 0
  /\ arrived = 0
  /\ processed = <<>>

Init ==
  /\ InitPipeline
  /\ lastCall = [fn |-> "none", threw |-> FALSE, duplicate |-> FALSE,
                 before |-> <<>>]

\* ------------------------------------------------------------------------
\* Actions of the listener
\* ------------------------------------------------------------------------

\* start() (event-listener.ts:285-299): connection.onLogs registers the
\* callback under a fresh subscription id
Start ==
  /\ subscriptionId' = nextSubId
  /\ listeners' = listeners \cup {nextSubId}
  /\ nextSubId' = nextSubId + 1
  /\ calls' = Append(calls, "start")
  /\ UNCHANGED << storeVars, hookVars, webhookService, dispatchVars, now,
                  removeCalls, arrived, processed, lastCall >>

\* a stop() that forgets to remove the callback
Stop_NoRemove ==
  /\ subscriptionId' = NULL
  /\ calls' = Append(calls, "stop")
  /\ UNCHANGED << listeners, removeCalls >>
  /\ UNCHANGED << storeVars, hookVars, nextSubId, webhookService, dispatchVars,
                  now, arrived, processed, lastCall >>

\* a stop() without the null test
Stop_NoGuard ==
  /\ listeners' = listeners \ {subscriptionId}
  /\ removeCalls' = removeCalls + 1
  /\ subscriptionId' = NULL
  /\ calls' = Append(calls, "stop")
  /\ UNCHANGED << storeVars, hookVars, nextSubId, webhookService, dispatchVars,
                  now, arrived, processed, lastCall >>

\* stop() (event-listener.ts:301-307)
Stop ==
  /\ IF subscriptionId # NULL
     THEN /\ listeners' = listeners \ {subscriptionId}
          /\ removeCalls' = removeCalls + 1
          /\ subscriptionId' = NULL
     ELSE UNCHANGED << listeners, removeCalls, subscriptionId >>
  /\ calls' = Append(calls, "stop")
  /\ UNCHANGED << storeVars, hookVars, nextSubId, webhookService, dispatchVars,
                  now, arrived, processed, lastCall >>

\* the log stream delivers notification k: every registered callback runs on it
Notify(k) ==
  /\ LET st == RunCallbacks(PipelineState, listeners, Notifications[k],
                            webhookService, webhooks, now)
     IN /\ events' = st.events
        /\ operations' = st.operations
        /\ dispatches' = st.dispatches
        /\ attempts' = st.attempts
  /\ UNCHANGED settled
  /\ arrived' = arrived + 1
  /\ processed' = processed \o Invocations(listeners, k)
  /\ now' = now + ClockStep
  /\ UNCHANGED << hookVars, listenerVars, webhookService, lastCall >>

\* ------------------------------------------------------------------------
\* Actions of the webhook service
\* ------------------------------------------------------------------------

\* register (webhook.ts:49-55): INSERT INTO webhooks (url, events, secret);
\* active defaults to 1, AUTOINCREMENT never hands out an id twice
Register(url, eventList, secret) ==
  /\ webhooks' = Append(webhooks, WebhookRow(webhookSeq + 1, url, eventList, secret))
  /\ webhookSeq' = webhookSeq + 1
  /\ UNCHANGED << storeVars, listenerVars, webhookService, dispatchVars, now,
                  arrived, processed, lastCall >>

\* remove (webhook.ts:62-65): DELETE FROM webhooks WHERE id = ?
Remove(id) ==
  /\ \E i \in 1..Len(webhooks) : webhooks[i].id = id
  /\ webhooks' = SelectSeq(webhooks, LAMBDA w : w.id # id)
  /\ UNCHANGED webhookSeq
  /\ UNCHANGED << storeVars, listenerVars, webhookService, dispatchVars, now,
                  arrived, processed, lastCall >>

\* the position in attempts of the fetch dispatch d awaits
PendingAttempt(atts, d) ==
  CHOOSE a \in 1..Len(atts) : atts[a].dispatch = d /\ atts[a].outcome = "pending"

\* a dispatch() without the try/catch around fetch and without the
\* response.ok branch: a delivery that fails ends the loop and rejects
DispatchResume_AbortOnFailure(st, d, outcome, nowMs) ==
  LET disp == st.dispatches[d]
      a == PendingAttempt(st.attempts, d)
      logged == [st.attempts EXCEPT ![a].outcome = outcome]
      pos == IF outcome = "delivered"
             THEN NextSubscribed(disp.hooks, disp.pos + 1, disp.eventType)
             ELSE 0
  IN [dispatches |-> [st.dispatches EXCEPT ![d].pos = pos,
                                           ![d].rejected = outcome # "delivered"],
      attempts |-> IF pos = 0 THEN logged
                   ELSE Append(logged,
                               FetchCall(d, disp.hooks[pos], disp.eventType,
                                         disp.payload, nowMs))]

\* dispatch() from the settling of the fetch it awaits to its next await
\* (webhook.ts:38-46, then 24-36 for the next webhook): the outcome is logged
\* ("delivered": response.ok; "failed": any other status; "error": fetch
\* threw) and the loop goes on to the next webhook it does not skip
DispatchResume(st, d, outcome, nowMs) ==
  LET disp == st.dispatches[d]
      a == PendingAttempt(st.attempts, d)
      logged == [st.attempts EXCEPT ![a].outcome = outcome]
      pos == NextSubscribed(disp.hooks, disp.pos + 1, disp.eventType)
  IN [dispatches |-> [st.dispatches EXCEPT ![d].pos = pos],
      attempts |-> IF pos = 0 THEN logged
                   ELSE Append(logged,
                               FetchCall(d, disp.hooks[pos], disp.eventType,
                                         disp.payload, nowMs))]

\* the fetch dispatch d awaits settles
FetchSettles(d, outcome) ==
  /\ d \in 1..Len(dispatches)
  /\ dispatches[d].pos # 0
  /\ settled' = settled + 1
  /\ LET st == DispatchResume([dispatches |-> dispatches, attempts |-> attempts],
                              d, outcome, now)
     IN /\ dispatches' = st.dispatches
        /\ attempts' = st.attempts
  /\ UNCHANGED << storeVars, hookVars, listenerVars, webhookService, now,
                  arrived, processed, lastCall >>

\* a call of dispatch(eventType, payload) from outside the listener
Dispatch(eventType, payload) ==
  /\ LET st == DispatchCall([dispatches |-> dispatches, attempts |-> attempts],
                            webhooks, eventType, payload, now)
     IN /\ dispatches' = st.dispatches
        /\ attempts' = st.attempts
  /\ now' = now + ClockStep
  /\ UNCHANGED << storeVars, hookVars, listenerVars, webhookService, settled,
                  arrived, processed, lastCall >>

\* ------------------------------------------------------------------------
\* Specifications
\* ------------------------------------------------------------------------

\* the listener, the audit store and the dispatches the listener starts
StepsLeft == Len(calls) + arrived + settled < MaxSteps

Next ==
  \/ StepsLeft /\ Start
  \/ StepsLeft /\ Stop
  \/ StepsLeft /\ \E k \in 1..Len(Notifications) : Notify(k)
  \/ StepsLeft /\ \E d \in 1..Len(dispatches) :
       \E outcome \in {"delivered", "failed", "error"} : FetchSettles(d, outcome)

Spec == Init /\ [][Next]_vars

\* the webhook service on its own: registrations and dispatch() calls made
\* from outside the listener
DispatchInputs ==
  { <<"TokensMinted", <<[k |-> "signature", v |-> [text |-> "sigA"]]>> >>,
    <<"TokensBurned", <<[k |-> "signature", v |-> [text |-> "sigB"]]>> >> }

NextWebhook ==
  \/ /\ webhookSeq < Len(InitialWebhooks) + MaxRegistrations
     /\ \E r \in RegisterInputs : Register(r[1], r[2], r[3])
  \/ \E id \in 1..(webhookSeq + 1) : Remove(id)
  \/ /\ Len(dispatches) < MaxDispatchCalls
     /\ \E c \in DispatchInputs : Dispatch(c[1], c[2])
  \/ /\ settled < MaxSettled
     /\ \E d \in 1..Len(dispatches) :
          \E outcome \in {"delivered", "failed", "error"} : FetchSettles(d, outcome)

\* the listener constructed without a webhook service, as the bootstrap does
InitDetached == Init /\ ~webhookService

SpecWebhook == InitDetached /\ [][NextWebhook]_vars

\* the audit store on its own: insertEvent and insertOperation called directly
\* by any writer, one SQL statement at a time.  lastCall records the call:
\* whether it threw, whether its signature was stored already, and the table
\* as it was before the call.
StoreSignatures == {"sigA", "sigB"}
StoreSubjects == {[pubkey |-> Key(1)], [pubkey |-> Key(5)]}
StoreTimes == {0, 1}

CallInsertEvent(eventType, stablecoin, signature, slot, timestamp) ==
  /\ LET r == insertEvent(events, eventType, stablecoin,
                          <<[k |-> "stablecoin", v |-> stablecoin]>>,
                          signature, slot, timestamp)
     IN /\ events' = r.rows
        /\ lastCall' = [fn |-> "insertEvent", threw |-> r.threw,
                        duplicate |-> HasSignature(events, signature),
                        before |-> events,
                        row |-> EventRow(eventType, stablecoin,
                                         <<[k |-> "stablecoin", v |-> stablecoin]>>,
                                         signature, slot, timestamp)]
  /\ UNCHANGED << operations, hookVars, listenerVars, webhookService,
                  dispatchVars, now, arrived, processed >>

CallInsertOperation(operation, mint, actor, signature, amount) ==
  /\ LET r == insertOperation(operations, operation, mint, actor, signature,
                              amount, Undefined)
     IN /\ operations' = r.rows
        /\ lastCall' = [fn |-> "insertOperation", threw |-> r.threw,
                        duplicate |-> HasSignature(operations, signature),
                        before |-> operations]
  /\ UNCHANGED << events, hookVars, listenerVars, webhookService,
                  dispatchVars, now, arrived, processed >>

NextStore ==
  \/ \E eventType \in {"TokensMinted", "TokensBurned"}, stablecoin \in StoreSubjects,
          signature \in StoreSignatures, timestamp \in StoreTimes :
       CallInsertEvent(eventType, stablecoin, signature, 0, timestamp)
  \/ \E signature \in StoreSignatures,
          amount \in {Undefined, [dec |-> DecString(FALSE, <<5>>)]} :
       CallInsertOperation("mint", [pubkey |-> Key(1)], [pubkey |-> Key(2)],
                           signature, amount)

SpecStore == InitDetached /\ [][NextStore]_vars

\* the callback and the decoder on one input: the input is drawn first
\* (lastCall.fn = "input"), then either the decoder is applied to its data
\* line or the callback is run on a notification holding its lines
InitFeed ==
  /\ InitPipeline
  /\ \E logs \in FeedInputs :
       lastCall = [fn |-> "input", input |-> Notification("sigF", FALSE, logs)]

\* decodeAnchorEvent applied to the base64 text of the input's data line
Decode ==
  /\ lastCall.fn = "input"
  /\ Len(lastCall.input.logs) = 1
  /\ StartsWithProgramData(lastCall.input.logs[1])
  /\ lastCall' = [fn |-> "decodeAnchorEvent", input |-> lastCall.input,
                  result |-> DecodedLine[lastCall.input.logs[1]]]
  /\ UNCHANGED << storeVars, hookVars, listenerVars, webhookService,
                  dispatchVars, now, arrived, processed >>

\* the onLogs callback run on the input
Feed ==
  /\ lastCall.fn = "input"
  /\ LET st == Callback(PipelineState, lastCall.input, webhookService, webhooks,
                        now)
     IN /\ events' = st.events
        /\ operations' = st.operations
        /\ dispatches' = st.dispatches
        /\ attempts' = st.attempts
  /\ now' = now + ClockStep
  /\ lastCall' = [fn |-> "processLog", input |-> lastCall.input]
  /\ UNCHANGED << hookVars, listenerVars, webhookService, settled, arrived,
                  processed >>

NextFeed == Decode \/ Feed

SpecFeed == InitFeed /\ [][NextFeed]_vars

\* the read side of the audit store: notifications of up to three
\* transactions about two stablecoins are captured, then the tables are
\* queried once as GET /events and GET /operations query them
QuerySignatures == {"sig1", "sig2", "sig3"}
QuerySubjects == {Undefined, EmptyText, [pubkey |-> Key(1)], [pubkey |-> Key(5)]}
QueryLimits == {-1, 0, 1, 2}
QueryOffsets == {-1, 0, 1, 2}

\* the callback run on a notification of one event, before the request is
\* answered
Capture(signature, log) ==
  /\ arrived < MaxCaptures
  /\ lastCall.fn \in {"none", "input"}
  /\ LET st == Callback(PipelineState, Notification(signature, FALSE, <<log>>),
                        webhookService, webhooks, now)
     IN /\ events' = st.events
        /\ operations' = st.operations
        /\ dispatches' = st.dispatches
        /\ attempts' = st.attempts
  /\ arrived' = arrived + 1
  /\ now' = now + ClockStep
  /\ UNCHANGED << hookVars, listenerVars, webhookService, settled, processed,
                  lastCall >>

CaptureCrash_OperationFirst(signature, log) ==
  /\ arrived < MaxCaptures
  /\ lastCall.fn \in {"none", "input"}
  /\ StartsWithProgramData(log)
  /\ DecodedLine[log].decoded
  /\ LET decoded == DecodedLine[log]
         mapping == OPERATION_MAP(decoded.type)
         op == insertOperation(operations, mapping.operation,
                               Field(decoded.fields, "stablecoin"),
                               Field(decoded.fields, mapping.actor), signature,
                               MappedField(decoded.fields, mapping.amount),
                               MappedField(decoded.fields, mapping.target))
     IN /\ ~op.threw
        /\ operations' = op.rows
  /\ arrived' = arrived + 1
  /\ now' = now + ClockStep
  /\ UNCHANGED << events, hookVars, listenerVars, webhookService, dispatchVars,
                  processed, lastCall >>

\* the callback on a notification of one event when the process dies between
\* the two writes of processLog: insertEvent has run, insertOperation has not;
\* the tables are on disk and outlive the process
CaptureCrash(signature, log) ==
  /\ arrived < MaxCaptures
  /\ lastCall.fn \in {"none", "input"}
  /\ StartsWithProgramData(log)
  /\ DecodedLine[log].decoded
  /\ LET decoded == DecodedLine[log]
         ev == insertEvent(events, decoded.type,
                           Field(decoded.fields, "stablecoin"), decoded.fields,
                           signature, 0, now \div 1000)
     IN /\ ~ev.threw
        /\ events' = ev.rows
  /\ arrived' = arrived + 1
  /\ now' = now + ClockStep
  /\ UNCHANGED << operations, hookVars, listenerVars, webhookService,
                  dispatchVars, processed, lastCall >>

\* getEvents(stablecoin, limit, offset) as the route calls it
QueryEvents(stablecoin, limit, offset) ==
  /\ lastCall = [fn |-> "input", subject |-> stablecoin, limit |-> limit,
                 offset |-> offset]
  /\ lastCall' = [fn |-> "getEvents", subject |-> stablecoin, limit |-> limit,
                  offset |-> offset,
                  result |-> getEvents(events, stablecoin, limit, offset)]
  /\ UNCHANGED << storeVars, hookVars, listenerVars, webhookService,
                  dispatchVars, now, arrived, processed >>

\* getOperations(mint, limit, offset) as the route calls it
QueryOperations(mint, limit, offset) ==
  /\ lastCall = [fn |-> "input", subject |-> mint, limit |-> limit,
                 offset |-> offset]
  /\ lastCall' = [fn |-> "getOperations", subject |-> mint, limit |-> limit,
                  offset |-> offset,
                  result |-> getOperations(operations, mint, limit, offset)]
  /\ UNCHANGED << storeVars, hookVars, listenerVars, webhookService,
                  dispatchVars, now, arrived, processed >>

NextQuery ==
  \/ \E signature \in QuerySignatures, log \in {LineMinted, LineBlacklist} :
       Capture(signature, log)
  \/ \E subject \in QuerySubjects, limit \in QueryLimits, offset \in QueryOffsets :
       QueryEvents(subject, limit, offset)
  \/ \E subject \in QuerySubjects, limit \in QueryLimits, offset \in QueryOffsets :
       QueryOperations(subject, limit, offset)

\* one request is drawn; it is answered after some notifications
InitQuery ==
  /\ InitPipeline
  /\ ~webhookService
  /\ lastCall \in [fn : {"input"}, subject : QuerySubjects, limit : QueryLimits,
                   offset : QueryOffsets]

SpecQuery == InitQuery /\ [][NextQuery]_vars

\* the write side alone: each notification is processed to its end, or the
\* process dies between the two writes and is started again
NextAudit ==
  \/ \E signature \in QuerySignatures, log \in {LineMinted, LineBlacklist} :
       Capture(signature, log)
  \/ \E signature \in QuerySignatures, log \in {LineMinted, LineBlacklist} :
       CaptureCrash(signature, log)

SpecAudit == InitDetached /\ [][NextAudit]_vars

\* ------------------------------------------------------------------------
\* The registrations as the routes of /webhooks use them
\* ------------------------------------------------------------------------

\* the highest id of the rows of a table, 0 when it is empty
MaxId(table) ==
  IF table = <<>> THEN 0
  ELSE CHOOSE m \in {table[i].id : i \in 1..Len(table)} :
         \A i \in 1..Len(table) : table[i].id <= m

\* an id column without AUTOINCREMENT: the highest stored id plus one
register_MaxRowid(table, seq, url, eventList, secret) ==
  [table |-> Append(table, WebhookRow(MaxId(table) + 1, url, eventList, secret)),
   seq |-> seq + 1,
   id |-> MaxId(table) + 1]

\* register(url, events, secret): the row is inserted under
\* "id INTEGER PRIMARY KEY AUTOINCREMENT" (seq is the highest id ever given)
\* and lastInsertRowid is returned
register(table, seq, url, eventList, secret) ==
  [table |-> Append(table, WebhookRow(seq + 1, url, eventList, secret)),
   seq |-> seq + 1,
   id |-> seq + 1]

list_SelectAll(table) == table

\* list(): SELECT id, url, events, active FROM webhooks
list(table) ==
  [i \in 1..Len(table) |->
     [id |-> table[i].id, url |-> table[i].url, events |-> table[i].events,
      active |-> table[i].active]]

\* remove(id): DELETE FROM webhooks WHERE id = ?
remove(table, id) == SelectSeq(table, LAMBDA w : w.id # id)

\* POST /webhooks with url, events and secret in the body; secret is NoSecret
\* when the body has none (secret ?? null)
PostWebhooks(url, eventList, secret) ==
  /\ LET r == register(webhooks, webhookSeq, url, eventList, secret)
     IN /\ webhooks' = r.table
        /\ webhookSeq' = r.seq
        /\ lastCall' = [fn |-> "register", id |-> r.id,
                        response |-> [id |-> r.id, url |-> url,
                                      events |-> eventList]]
  /\ UNCHANGED << storeVars, listenerVars, webhookService, dispatchVars, now,
                  arrived, processed >>

\* GET /webhooks
GetWebhooks ==
  /\ lastCall' = [fn |-> "list", response |-> list(webhooks)]
  /\ UNCHANGED << storeVars, hookVars, listenerVars, webhookService,
                  dispatchVars, now, arrived, processed >>

\* DELETE /webhooks/:id, whether or not a row has the id
DeleteWebhook(id) ==
  /\ webhooks' = remove(webhooks, id)
  /\ lastCall' = [fn |-> "remove", id |-> id, response |-> [deleted |-> TRUE]]
  /\ UNCHANGED webhookSeq
  /\ UNCHANGED << storeVars, listenerVars, webhookService, dispatchVars, now,
                  arrived, processed >>

RegistryStepsLeft ==
  (webhookSeq - Len(InitialWebhooks)) + Len(dispatches) + settled < MaxRegistrySteps

NextRegistry ==
  \/ /\ RegistryStepsLeft
     /\ \E r \in RegisterInputs :
          PostWebhooks(r[1], r[2], r[3])
  \/ GetWebhooks
  \/ \E id \in 1..(webhookSeq + 1) : DeleteWebhook(id)
  \/ /\ RegistryStepsLeft
     /\ \E c \in DispatchInputs : Dispatch(c[1], c[2])
  \/ /\ RegistryStepsLeft
     /\ \E d \in 1..Len(dispatches) :
          \E outcome \in {"delivered", "failed", "error"} : FetchSettles(d, outcome)

SpecRegistry == InitDetached /\ [][NextRegistry]_vars

\* the HTTP front of the backend: one request goes through the middleware
\* mounted on the app, in the order of its app.use calls, then to the routes
API_KEY == "dev-api-key"
NoHeader == "<undefined>"
Methods == {"GET", "POST", "DELETE", "OPTIONS"}
Paths == {"/health", "/health/", "/api/events", "/api/operations",
          "/api/webhooks", "/elsewhere"}
Keys == {NoHeader, "", "wrong-key", API_KEY}
Bodies == {"none", "json", "malformed json"}
Requests == [method : Methods, path : Paths, key : Keys, body : Bodies]

Answer(status, handler) == [status |-> status, handler |-> handler]
NoHandler == "<none>"

\* the routes of the app: app.get("/health") and the routers under /api
\* (Express matches a trailing slash unless strict routing is set)
Route(req) ==
  CASE req.method = "GET" /\ req.path \in {"/health", "/health/"} ->
         Answer(200, "health")
    [] req.method = "GET" /\ req.path = "/api/events" -> Answer(200, "events")
    [] req.method = "GET" /\ req.path = "/api/operations" ->
         Answer(200, "operations")
    [] req.method \in {"GET", "POST"} /\ req.path = "/api/webhooks" ->
         Answer(200, "webhooks")
    [] OTHER -> Answer(404, NoHandler)

apiKeyAuth_PresenceOnly(req, next) ==
  IF req.path = "/health" THEN next
  ELSE IF req.key = NoHeader \/ req.key = ""
       THEN Answer(401, NoHandler)
       ELSE next

\* apiKeyAuth(req, res, next); next is the answer of the rest of the chain
apiKeyAuth(req, next) ==
  IF req.path = "/health" THEN next
  ELSE IF req.key = NoHeader \/ req.key = "" \/ req.key # API_KEY
       THEN Answer(401, NoHandler)
       ELSE next

\* express.json(): a body that does not parse is passed on as an error, which
\* skips the middleware and routes that follow and is answered 400
expressJson(req, next) ==
  IF req.body = "malformed json" THEN Answer(400, NoHandler) ELSE next

\* cors() with its defaults answers a preflight request itself (204)
cors(req, next) ==
  IF req.method = "OPTIONS" THEN Answer(204, NoHandler) ELSE next

\* app.use(helmet()), which only sets response headers; app.use(cors());
\* app.use(express.json()); app.use(apiKeyAuth); then the routes
App(req) == cors(req, expressJson(req, apiKeyAuth(req, Route(req))))

InitApi ==
  /\ InitPipeline
  /\ ~webhookService
  /\ \E req \in Requests : lastCall = [fn |-> "request", req |-> req]

Serve ==
  /\ lastCall.fn = "request"
  /\ lastCall' = [fn |-> "response", req |-> lastCall.req,
                  res |-> App(lastCall.req)]
  /\ UNCHANGED << storeVars, hookVars, listenerVars, webhookService,
                  dispatchVars, now, arrived, processed >>

NextApi == Serve

SpecApi == InitApi /\ [][NextApi]_vars

\* the 64-bit codec on one input: a bigint is drawn, then written by the SDK
\* and read back by the decoder
InitCodec ==
  /\ InitPipeline
  /\ ~webhookService
  /\ \E n \in CodecValues : lastCall = [fn |-> "input", input |-> n]

\* readU64(serializeU64(n), 0)
RoundTripU64 ==
  /\ lastCall.fn = "input"
  /\ LET written == serializeU64(lastCall.input)
     IN lastCall' = [fn |-> "readU64", input |-> lastCall.input,
                     written |-> written,
                     read |-> IF written.err THEN Thrown
                              ELSE readU64(written.buf, 0)]
  /\ UNCHANGED << storeVars, hookVars, listenerVars, webhookService,
                  dispatchVars, now, arrived, processed >>

\* readI64(serializeI64(n), 0)
RoundTripI64 ==
  /\ lastCall.fn = "input"
  /\ LET written == serializeI64(lastCall.input)
     IN lastCall' = [fn |-> "readI64", input |-> lastCall.input,
                     written |-> written,
                     read |-> IF written.err THEN Thrown
                              ELSE readI64(written.buf, 0)]
  /\ UNCHANGED << storeVars, hookVars, listenerVars, webhookService,
                  dispatchVars, now, arrived, processed >>

NextCodec == RoundTripU64 \/ RoundTripI64

SpecCodec == InitCodec /\ [][NextCodec]_vars

\* ------------------------------------------------------------------------
\* The clients of the program: the SDK (sdk/core), the CLI (sdk/cli) and
\* the status route of the backend derive addresses and build instruction
\* data
\* ------------------------------------------------------------------------

\* Buffer.from("stablecoin"), Buffer.from("role"), ... of the SDK (pda.ts:4-7)
SEEDS ==
  [stablecoin |-> <<115, 116, 97, 98, 108, 101, 99, 111, 105, 110>>,
   role |-> <<114, 111, 108, 101>>,
   minter |-> <<109, 105, 110, 116, 101, 114>>,
   blacklist |-> <<98, 108, 97, 99, 107, 108, 105, 115, 116>>]

\* STABLECOIN_SEED, ROLE_SEED, MINTER_SEED, BLACKLIST_SEED of the CLI
CONFIG_SEEDS ==
  [stablecoin |-> <<115, 116, 97, 98, 108, 101, 99, 111, 105, 110>>,
   role |-> <<114, 111, 108, 101>>,
   minter |-> <<109, 105, 110, 116, 101, 114>>,
   blacklist |-> <<98, 108, 97, 99, 107, 108, 105, 115, 116>>]

\* the program id of the SDK and that of the CLI
SSS_TOKEN_PROGRAM_ID == "2D8s3bH6vD3LG7wqzvpSvYFysYoSK4wwggHCptaKFJJQ"
PROGRAM_ID == "2D8s3bH6vD3LG7wqzvpSvYFysYoSK4wwggHCptaKFJJQ"

\* PublicKey.findProgramAddressSync(seeds, programId): the address is a hash
\* of the seeds one after the other and of the program id; it is kept as
\* what is hashed, so two addresses are equal exactly when that is equal
RECURSIVE Concat(_)
Concat(buffers) ==
  IF buffers = <<>> THEN <<>> ELSE Head(buffers) \o Concat(Tail(buffers))

findProgramAddressSync(seeds, programId) ==
  [hashed |-> Concat(seeds), programId |-> programId]

EntityKinds == {"stablecoin", "role", "minter", "blacklist"}

findPDA_HolderFirst(kind, first, second) ==
  CASE kind = "stablecoin" ->
         findProgramAddressSync(<<SEEDS.stablecoin, first>>, SSS_TOKEN_PROGRAM_ID)
    [] kind = "role" ->
         findProgramAddressSync(<<SEEDS.role, second, first>>, SSS_TOKEN_PROGRAM_ID)
    [] kind = "minter" ->
         findProgramAddressSync(<<SEEDS.minter, first, second>>, SSS_TOKEN_PROGRAM_ID)
    [] kind = "blacklist" ->
         findProgramAddressSync(<<SEEDS.blacklist, first, second>>, SSS_TOKEN_PROGRAM_ID)

\* findStablecoinPDA(mint), findRolePDA(stablecoin, holder),
\* findMinterPDA(stablecoin, minter), findBlacklistPDA(stablecoin, address)
findPDA(kind, first, second) ==
  CASE kind = "stablecoin" ->
         findProgramAddressSync(<<SEEDS.stablecoin, first>>, SSS_TOKEN_PROGRAM_ID)
    [] kind = "role" ->
         findProgramAddressSync(<<SEEDS.role, first, second>>, SSS_TOKEN_PROGRAM_ID)
    [] kind = "minter" ->
         findProgramAddressSync(<<SEEDS.minter, first, second>>, SSS_TOKEN_PROGRAM_ID)
    [] kind = "blacklist" ->
         findProgramAddressSync(<<SEEDS.blacklist, first, second>>, SSS_TOKEN_PROGRAM_ID)

\* the blacklist command of the CLI: blacklistPda
CliBlacklistPda(stablecoinPda, targetAddress) ==
  findProgramAddressSync(<<CONFIG_SEEDS.blacklist, stablecoinPda, targetAddress>>,
                         PROGRAM_ID)

\* the mint command of the CLI: stablecoinPda, rolePda, minterInfoPda
CliPda(kind, first, second) ==
  CASE kind = "stablecoin" ->
         findProgramAddressSync(<<CONFIG_SEEDS.stablecoin, first>>, PROGRAM_ID)
    [] kind = "role" ->
         findProgramAddressSync(<<CONFIG_SEEDS.role, first, second>>, PROGRAM_ID)
    [] kind = "minter" ->
         findProgramAddressSync(<<CONFIG_SEEDS.minter, first, second>>, PROGRAM_ID)
    [] kind = "blacklist" -> CliBlacklistPda(first, second)

\* GET /status/:mint of the backend: stablecoinPda, with the route's own
\* STABLECOIN_SEED and PROGRAM_ID
StatusPda(mint) ==
  findProgramAddressSync(
    << <<115, 116, 97, 98, 108, 101, 99, 111, 105, 110>>, mint >>,
    "2D8s3bH6vD3LG7wqzvpSvYFysYoSK4wwggHCptaKFJJQ")

\* sha256("global:<name>")[0..8]
GlobalDiscriminator(name) ==
  CASE name = "mint_tokens" -> <<59, 132, 24, 246, 122, 39, 8, 243>>
    [] name = "update_minter" -> <<164, 129, 164, 88, 75, 29, 91, 38>>

\* anchorDisc(name) of the SDK
anchorDisc(name) == GlobalDiscriminator(name)

\* disc(name) of the CLI commands
cliDisc(name) == GlobalDiscriminator(name)

\* a string is the sequence of its characters
DigitChars == <<"0", "1", "2", "3", "4", "5", "6", "7", "8", "9">>

\* String(n) of a bigint, as a command line gives an amount
ToText(n) ==
  (IF n.neg THEN <<"-">> ELSE <<>>)
    \o [i \in 1..Len(n.digits) |-> DigitChars[n.digits[i] + 1]]

RECURSIVE StripZeros(_)
StripZeros(digits) ==
  IF Len(digits) > 1 /\ Head(digits) = 0 THEN StripZeros(Tail(digits))
  ELSE digits

\* BigInt(text) of a decimal string: a SyntaxError unless text is empty (0n)
\* or an optional sign followed by decimal digits
BigInt(text) ==
  LET signed == text # <<>> /\ Head(text) \in {"-", "+"}
      body == IF signed THEN Tail(text) ELSE text
      digitOf(c) == CHOOSE d \in 0..9 : DigitChars[d + 1] = c
      digits == StripZeros([i \in 1..Len(body) |-> digitOf(body[i])])
  IN IF text = <<>> THEN [err |-> FALSE, val |-> [neg |-> FALSE, digits |-> <<0>>]]
     ELSE IF body = <<>>
             \/ \E i \in 1..Len(body) :
                  \A d \in 1..10 : DigitChars[d] # body[i]
     THEN [err |-> TRUE, val |-> <<>>]
     ELSE [err |-> FALSE,
           val |-> [neg |-> signed /\ Head(text) = "-" /\ ~IsZero(digits),
                    digits |-> digits]]

NoData == [err |-> TRUE, data |-> <<>>]

\* mintTokens of the SDK: data
mintTokens(amount) ==
  LET written == serializeU64(amount)
  IN IF written.err THEN NoData
     ELSE [err |-> FALSE, data |-> anchorDisc("mint_tokens") \o written.buf]

mintCommand_Signed(amountText) ==
  LET amount == BigInt(amountText)
      amountBuf == IF amount.err THEN [err |-> TRUE, buf |-> <<>>]
                   ELSE serializeI64(amount.val)
  IN IF amountBuf.err THEN NoData
     ELSE [err |-> FALSE, data |-> cliDisc("mint_tokens") \o amountBuf.buf]

\* the mint command of the CLI: data, from argv.amount
mintCommand(amountText) ==
  LET amount == BigInt(amountText)
      amountBuf == IF amount.err THEN [err |-> TRUE, buf |-> <<>>]
                   ELSE serializeU64(amount.val)
  IN IF amountBuf.err THEN NoData
     ELSE [err |-> FALSE, data |-> cliDisc("mint_tokens") \o amountBuf.buf]

\* RoleManager.updateMinter of the SDK (roles.ts:165-203): data; epochDuration
\* is Undefined when not given
updateMinter(quota, epochDuration) ==
  LET quotaBuf == serializeU64(quota)
      epochBuf == IF epochDuration # Undefined
                  THEN LET written == serializeI64(epochDuration)
                       IN [err |-> written.err, buf |-> <<1>> \o written.buf]
                  ELSE [err |-> FALSE, buf |-> <<0>>]
  IN IF quotaBuf.err \/ epochBuf.err THEN NoData
     ELSE [err |-> FALSE,
           data |-> anchorDisc("update_minter") \o quotaBuf.buf \o epochBuf.buf]

\* the minters command of the CLI: data, from argv.quota
mintersCommand(quotaText) ==
  LET quota == BigInt(quotaText)
      quotaBuf == IF quota.err THEN [err |-> TRUE, buf |-> <<>>]
                  ELSE serializeU64(quota.val)
  IN IF quotaBuf.err THEN NoData
     ELSE [err |-> FALSE, data |-> cliDisc("update_minter") \o quotaBuf.buf]

\* the inputs of the clients: the keys of an entity, or an amount
ClientKeys == {Key(1), Key(2), Key(3), Key(4)}
EpochDurations == {Undefined, [neg |-> FALSE, digits |-> <<3, 6, 0, 0>>]}
ClientInputs ==
  [op : {"derive"}, kind : EntityKinds, first : ClientKeys, second : ClientKeys]
    \cup [op : {"mint"}, amount : CodecValues]
    \cup [op : {"updateMinter"}, quota : CodecValues, epochDuration : EpochDurations]

InitClient ==
  /\ InitPipeline
  /\ ~webhookService
  /\ \E input \in ClientInputs : lastCall = [fn |-> "input", input |-> input]

\* the SDK, the CLI and the status route derive the address of one entity
DeriveAddress ==
  /\ lastCall.fn = "input"
  /\ lastCall.input.op = "derive"
  /\ LET in == lastCall.input
     IN lastCall' = [fn |-> "derive", input |-> in,
                     sdk |-> findPDA(in.kind, in.first, in.second),
                     cli |-> CliPda(in.kind, in.first, in.second),
                     status |-> StatusPda(in.first)]
  /\ UNCHANGED << storeVars, hookVars, listenerVars, webhookService,
                  dispatchVars, now, arrived, processed >>

\* the SDK and the CLI build the data of mint_tokens for one amount
BuildMint ==
  /\ lastCall.fn = "input"
  /\ lastCall.input.op = "mint"
  /\ lastCall' = [fn |-> "mint", input |-> lastCall.input,
                  sdk |-> mintTokens(lastCall.input.amount),
                  cli |-> mintCommand(ToText(lastCall.input.amount))]
  /\ UNCHANGED << storeVars, hookVars, listenerVars, webhookService,
                  dispatchVars, now, arrived, processed >>

\* the SDK and the CLI build the data of update_minter for one quota
BuildUpdateMinter ==
  /\ lastCall.fn = "input"
  /\ lastCall.input.op = "updateMinter"
  /\ lastCall' = [fn |-> "updateMinter", input |-> lastCall.input,
                  sdk |-> updateMinter(lastCall.input.quota,
                                       lastCall.input.epochDuration),
                  cli |-> mintersCommand(ToText(lastCall.input.quota))]
  /\ UNCHANGED << storeVars, hookVars, listenerVars, webhookService,
                  dispatchVars, now, arrived, processed >>

NextClient == DeriveAddress \/ BuildMint \/ BuildUpdateMinter

SpecClient == InitClient /\ [][NextClient]_vars

\* ------------------------------------------------------------------------
\* Properties
\* ------------------------------------------------------------------------

Count(seq, P(_)) == Cardinality({ i \in 1..Len(seq) : P(seq[i]) })

\* the events the lines of notification k decode to, in order
RECURSIVE DecodedFrom(_, _)
DecodedFrom(logs, i) ==
  IF i > Len(logs) THEN <<>>
  ELSE IF StartsWithProgramData(logs[i]) /\ DecodedLine[logs[i]].decoded
  THEN <<DecodedLine[logs[i]]>> \o DecodedFrom(logs, i + 1)
  ELSE DecodedFrom(logs, i + 1)

DecodedEvents(k) == DecodedFrom(Notifications[k].logs, 1)

\* a step in which notification k reached at least one callback
Processes(k) ==
  /\ arrived' = arrived + 1
  /\ Len(processed') > Len(processed)
  /\ processed'[Len(processed')].n = k

\* C1: the events table holds at most one row per signature, and an
\* insertEvent whose signature is already stored leaves the number of rows
\* getEvents returns unchanged.
C1_OneRowPerSignature ==
  /\ \A i, j \in 1..Len(events) :
       events[i].signature = events[j].signature => i = j
  /\ (lastCall.fn = "insertEvent" /\ lastCall.duplicate) =>
       Len(getEvents(events, Undefined, DefaultLimit, 0))
         = Len(getEvents(lastCall.before, Undefined, DefaultLimit, 0))

\* an insertEvent was called with a stored signature and other values
C1_Witness ==
  /\ lastCall.fn = "insertEvent"
  /\ lastCall.duplicate
  /\ Len(events) = 2

\* C2: insertOperation, and insertEvent, called with a signature that already
\* has a row returns normally and leaves its table as it was.
C2_DuplicateIsSilent ==
  /\ (lastCall.fn = "insertOperation" /\ lastCall.duplicate) =>
       (~lastCall.threw /\ operations = lastCall.before)
  /\ (lastCall.fn = "insertEvent" /\ lastCall.duplicate) =>
       (~lastCall.threw /\ events = lastCall.before)

\* an insertOperation was called with a stored signature
C2_Witness ==
  /\ lastCall.fn = "insertOperation"
  /\ lastCall.duplicate
  /\ Len(operations) >= 1

\* the fetch() calls made to webhook id for an event of transaction signature
AttemptsFor(id, signature) ==
  Count(attempts, LAMBDA a : a.webhook = id
                             /\ Field(a.body.data, "signature") = [text |-> signature])

\* C3: a notification with one event, processed twice by the same
\* subscription, leaves exactly one audit row and at most one delivery attempt
\* per active subscriber.
C3_RedeliveryDispatchedOnce ==
  \A i, j \in 1..Len(processed) :
    (/\ i < j
     /\ processed[i].n = processed[j].n
     /\ processed[i].sub = processed[j].sub
     /\ ~Notifications[processed[i].n].err
     /\ Len(DecodedEvents(processed[i].n)) = 1)
    => LET signature == Notifications[processed[i].n].signature
       IN /\ Count(events, LAMBDA r : r.signature = signature) = 1
          /\ \A w \in 1..Len(webhooks) :
               webhooks[w].active = 1 => AttemptsFor(webhooks[w].id, signature) <= 1

\* C4: every event decoded from a processed notification of a successful
\* transaction has an event row and an operation row of its own.
C4_RowsPerDecodedEvent ==
  \A i \in 1..Len(processed) :
    LET k == processed[i].n
        decoded == DecodedEvents(k)
    IN ~Notifications[k].err =>
         \A e \in 1..Len(decoded) :
           /\ \E r \in 1..Len(events) :
                /\ events[r].signature = Notifications[k].signature
                /\ events[r].event_type = decoded[e].type
                /\ events[r].data = decoded[e].fields
           /\ \E r \in 1..Len(operations) :
                /\ operations[r].signature = Notifications[k].signature
                /\ operations[r].operation = OPERATION_MAP(decoded[e].type).operation

\* C5: a notification whose err is set changes neither table and starts no
\* dispatch, whatever its log lines hold.
C5_FailedTransactionDiscarded ==
  [][\A k \in 1..Len(Notifications) :
       (Processes(k) /\ Notifications[k].err)
         => UNCHANGED << events, operations, dispatches, attempts >>]_vars

\* a notification with err set, carrying two valid events, reached a callback
C5_Witness ==
  \E i \in 1..Len(processed) :
    /\ Notifications[processed[i].n].err
    /\ Len(DecodedEvents(processed[i].n)) = 2

\* a data line that does not decode
BadLine(log) == StartsWithProgramData(log) /\ ~DecodedLine[log].decoded

\* the notification without its data lines that do not decode
WithoutBadLines(logInfo) ==
  [logInfo EXCEPT !.logs = SelectSeq(logInfo.logs, LAMBDA log : ~BadLine(log))]

\* C6: a notification is processed exactly as the same notification without
\* its undecodable lines would have been.
C6_BadLinesSkipped ==
  [][\A k \in 1..Len(Notifications) :
       Processes(k) =>
         LET st == RunCallbacks(PipelineState, listeners,
                                WithoutBadLines(Notifications[k]),
                                webhookService, webhooks, now)
         IN /\ events' = st.events
            /\ operations' = st.operations
            /\ dispatches' = st.dispatches
            /\ attempts' = st.attempts]_vars

\* a notification with an unknown discriminator, a truncated event, a too
\* short payload, an overlong string length and then a valid event was
\* processed, and the valid event is stored
C6_Witness ==
  /\ \E i \in 1..Len(processed) :
       Notifications[processed[i].n].logs
         = <<LineUnknown, LineTruncated, LineShort, LineBadLength, LineBlacklist>>
  /\ \E r \in 1..Len(events) :
       /\ events[r].event_type = "AddedToBlacklist"
       /\ events[r].signature = "sigB"
  /\ \E r \in 1..Len(operations) : operations[r].operation = "blacklist_add"

\* C7: no callback runs on a notification while the listener is stopped
\* (subscriptionId is null: stop() has returned, or start() was never called).
C7_NothingProcessedAfterStop ==
  \A i \in 1..Len(processed) : processed[i].handle # NULL

\* a step that is a call of stop()
IsStopCall ==
  /\ Len(calls') = Len(calls) + 1
  /\ calls'[Len(calls')] = "stop"

\* C8: stop() on a listener that holds no subscription changes nothing and
\* does not call removeOnLogsListener.
C8_StopIdempotent ==
  [][(IsStopCall /\ subscriptionId = NULL)
       => UNCHANGED << storeVars, hookVars, subscriptionId, listeners, nextSubId,
                       removeCalls, webhookService, dispatchVars, now, arrived,
                       processed, lastCall >>]_vars

\* stop() was called twice in a row after a start()
C8_Witness ==
  /\ calls = <<"start", "stop", "stop">>
  /\ removeCalls = 1
  /\ listeners = {}

\* start() and stop() were called in turn, start() first
RECURSIVE Alternating(_)
Alternating(cs) ==
  IF cs = <<>> THEN TRUE
  ELSE /\ cs[Len(cs)] = (IF Len(cs) % 2 = 1 THEN "start" ELSE "stop")
       /\ Alternating(SubSeq(cs, 1, Len(cs) - 1))

\* C9: after start(), stop(), start() (and any further such turns) the
\* listener holds exactly one subscription, its own, and every event-carrying
\* notification of a successful transaction that arrives in a later session is
\* stored.
C9_Restartable ==
  /\ (Alternating(calls) /\ Len(calls) % 2 = 1)
       => (subscriptionId # NULL /\ listeners = {subscriptionId})
  /\ \A i \in 1..Len(processed) :
       LET k == processed[i].n
       IN (processed[i].session >= 2 /\ ~Notifications[k].err
           /\ DecodedEvents(k) # <<>>)
          => /\ HasSignature(events, Notifications[k].signature)
             /\ HasSignature(operations, Notifications[k].signature)

\* one notification was stored in the first session and one in the second
C9_Witness ==
  /\ calls = <<"start", "stop", "start">>
  /\ Len(processed) = 2
  /\ processed[1].session = 1
  /\ processed[2].session = 2
  /\ Len(events) = 2
  /\ Len(operations) = 2

\* the event list register() was given for registration reg holds name or "*"
RegisteredFor(reg, name) ==
  \E i \in 1..Len(reg.given) :
    reg.given[i] = <<name>> \/ reg.given[i] = <<"*">>

\* the fetch() calls dispatch d has made to registration id
AttemptsOf(d, id) ==
  Count(attempts, LAMBDA a : a.dispatch = d /\ a.webhook = id)

\* C10: a dispatch makes no delivery attempt to a registration that is
\* inactive or not subscribed to its event type, never more than one to any
\* registration, and, once it has returned, exactly one to each active
\* registration subscribed to the event type or to "*".
C10_OneAttemptPerSubscriber ==
  \A d \in 1..Len(dispatches) :
    /\ \A w \in 1..Len(dispatches[d].table) :
         LET reg == dispatches[d].table[w]
             due == reg.active = 1 /\ RegisteredFor(reg, dispatches[d].eventType)
         IN /\ AttemptsOf(d, reg.id) <= (IF due THEN 1 ELSE 0)
            /\ dispatches[d].pos = 0 => AttemptsOf(d, reg.id) = (IF due THEN 1 ELSE 0)
    /\ \A a \in 1..Len(attempts) :
         attempts[a].dispatch = d =>
           \E w \in 1..Len(dispatches[d].table) :
             dispatches[d].table[w].id = attempts[a].webhook

\* a TokensBurned dispatch has returned with the "*" registration, the
\* TokensMinted-only registration and the inactive registration all present
C10_Witness ==
  \E d \in 1..Len(dispatches) :
    /\ dispatches[d].eventType = "TokensBurned"
    /\ dispatches[d].pos = 0
    /\ dispatches[d].table = InitialWebhooks
    /\ AttemptsOf(d, 2) = 1
    /\ AttemptsOf(d, 3) = 0
    /\ AttemptsOf(d, 1) = 0

\* the fetch() calls dispatch d has made to registration id that have settled
SettledOf(d, id) ==
  Count(attempts, LAMBDA a : a.dispatch = d /\ a.webhook = id
                             /\ a.outcome # "pending")

\* C11: no dispatch rejects; within a dispatch, once the deliveries to the
\* matching registrations before a matching registration have settled,
\* whatever their outcomes, that registration has its delivery attempt; and a
\* dispatch that awaits no fetch has returned.
C11_FailureDoesNotStopDispatch ==
  \A d \in 1..Len(dispatches) :
    LET hooks == dispatches[d].hooks
        due(q) == RegisteredFor(hooks[q], dispatches[d].eventType)
    IN /\ ~dispatches[d].rejected
       /\ \A q \in 1..Len(hooks) :
            (/\ due(q)
             /\ \A p \in 1..(q - 1) : due(p) => SettledOf(d, hooks[p].id) = 1)
            => AttemptsOf(d, hooks[q].id) = 1
       /\ (\A a \in 1..Len(attempts) :
             attempts[a].dispatch = d => attempts[a].outcome # "pending")
            => dispatches[d].pos = 0

\* a dispatch has returned after a non-2xx response from its first subscriber
\* and a network error from its second
C11_Witness ==
  \E d \in 1..Len(dispatches) :
    /\ dispatches[d].pos = 0
    /\ ~dispatches[d].rejected
    /\ \E a, b \in 1..Len(attempts) :
         /\ a < b
         /\ attempts[a].dispatch = d /\ attempts[a].outcome = "failed"
         /\ attempts[b].dispatch = d /\ attempts[b].outcome = "error"
         /\ attempts[a].webhook # attempts[b].webhook

\* C12: the first event of every transaction whose notification was
\* processed has its event row and its operation row, in every state: with
\* its deliveries pending, delivered, failed or never completing, and with
\* dispatches of earlier events still awaiting a delivery.
C12_PersistenceIndependentOfDelivery ==
  \A i \in 1..Len(processed) :
    LET k == processed[i].n
        decoded == DecodedEvents(k)
    IN (~Notifications[k].err /\ decoded # <<>>) =>
         /\ \E r \in 1..Len(events) :
              /\ events[r].signature = Notifications[k].signature
              /\ events[r].event_type = decoded[1].type
              /\ events[r].data = decoded[1].fields
         /\ \E r \in 1..Len(operations) :
              /\ operations[r].signature = Notifications[k].signature
              /\ operations[r].operation = OPERATION_MAP(decoded[1].type).operation

\* the rows of a second transaction were written while the dispatch of the
\* first one still awaits its first delivery, and stay while a delivery of
\* the second one has failed
C12_Witness ==
  /\ Len(dispatches) = 2
  /\ dispatches[1].pos # 0
  /\ \E a \in 1..Len(attempts) :
       attempts[a].dispatch = 1 /\ attempts[a].outcome = "pending"
  /\ \E a \in 1..Len(attempts) :
       attempts[a].dispatch = 2 /\ attempts[a].outcome \in {"failed", "error"}
  /\ Len(events) = 2
  /\ Len(operations) = 2
  /\ events[2].signature = Field(dispatches[2].payload, "signature").text

\* C13: with the listener constructed as the bootstrap constructs it, every
\* event decoded from a processed notification of a successful transaction
\* has a dispatch() call of its own.
C13_BootstrapDispatchesEvents ==
  ~webhookService =>
    \A i \in 1..Len(processed) :
      LET k == processed[i].n
          decoded == DecodedEvents(k)
      IN ~Notifications[k].err =>
           \A e \in 1..Len(decoded) :
             \E d \in 1..Len(dispatches) :
               /\ dispatches[d].eventType = decoded[e].type
               /\ Field(dispatches[d].payload, "signature")
                    = [text |-> Notifications[k].signature]

\* the bytes of the data line the input consists of
InputBytes == lastCall.input.logs[1].payload

\* the last call had a single data line as its input
OnDataLine ==
  /\ lastCall.fn \in {"decodeAnchorEvent", "processLog"}
  /\ Len(lastCall.input.logs) = 1
  /\ lastCall.input.logs[1].prefix = "Program data: "

Registered(disc) == \E name \in EventNameSet : EventDiscriminator(name) = disc

\* C14: the decoder returns null for every buffer of fewer than 8 bytes and
\* for every buffer whose first 8 bytes are no registered discriminator.
C14_UnrecognizedIsNull ==
  (/\ OnDataLine
   /\ lastCall.fn = "decodeAnchorEvent"
   /\ \/ Len(InputBytes) < 8
      \/ ~Registered(SubSeq(InputBytes, 1, 8)))
  => lastCall.result = NullEvent

\* the decoder was applied to a whole TokensMinted event whose discriminator
\* differs from the registered one in its last byte
C14_Witness ==
  /\ OnDataLine
  /\ lastCall.fn = "decodeAnchorEvent"
  /\ InputBytes = [ValidEvent("TokensMinted") EXCEPT ![8] = 25]
  /\ lastCall.result = NullEvent

\* the offset at which the fields of schema, from field i on, end in data by
\* the Borsh layout; Len(data) + 1 when data ends inside a length prefix
RECURSIVE SchemaEnd(_, _, _, _)
SchemaEnd(schema, i, data, offset) ==
  IF i > Len(schema) THEN offset
  ELSE LET kind == schema[i][2]
       IN IF kind = "string"
          THEN IF offset + 4 > Len(data) THEN Len(data) + 1
               ELSE SchemaEnd(schema, i + 1, data,
                              offset + 4 + UInt32LE(SubSeq(data, offset + 1, offset + 4)))
          ELSE SchemaEnd(schema, i + 1, data,
                         offset + (CASE kind = "pubkey" -> 32
                                     [] kind = "bool" -> 1
                                     [] OTHER -> 8))

\* buffer starts with the discriminator of name and is shorter than the
\* schema of name requires
TooShortFor(name, buffer) ==
  /\ Len(buffer) >= 8
  /\ SubSeq(buffer, 1, 8) = EventDiscriminator(name)
  /\ SchemaEnd(EventSchema(name), 1, Subarray(buffer, 8, Len(buffer)), 0)
       > Len(buffer) - 8

\* C15: for a buffer shorter than the schema of its event type requires, the
\* decoder returns null, and the callback run on it writes no event row and
\* no operation row.
C15_ShortPayloadFailsWhole ==
  (OnDataLine /\ \E name \in EventNameSet : TooShortFor(name, InputBytes))
  => /\ lastCall.fn = "decodeAnchorEvent" => lastCall.result = NullEvent
     /\ lastCall.fn = "processLog" => (events = <<>> /\ operations = <<>>)

\* the callback was run on a RolesUpdated event cut inside its flags, where
\* the reads of the flags and of the key that follow do not fail
C15_Witness ==
  /\ OnDataLine
  /\ lastCall.fn = "processLog"
  /\ InputBytes = SubSeq(ValidEvent("RolesUpdated"), 1, 8 + 64 + 2)
  /\ TooShortFor("RolesUpdated", InputBytes)
  /\ events = <<>>
  /\ operations = <<>>

\* a < b for decimal digit sequences without leading zeros
RECURSIVE DecLess(_, _)
DecLess(a, b) ==
  IF Len(a) # Len(b) THEN Len(a) < Len(b)
  ELSE IF a = <<>> THEN FALSE
  ELSE IF Head(a) # Head(b) THEN Head(a) < Head(b)
  ELSE DecLess(Tail(a), Tail(b))

\* 0 <= n < 2^64
InRangeU64(n) == ~n.neg /\ DecLess(n.digits, Pow2(64))

\* -2^63 <= n < 2^63
InRangeI64(n) ==
  IF n.neg THEN ~DecLess(Pow2(63), n.digits) ELSE DecLess(n.digits, Pow2(63))

\* C16: for 0 <= n < 2^64, serializeU64(n) is 8 bytes from which readU64
\* yields the decimal string of n and the offset 8; for -2^63 <= n < 2^63,
\* readI64 yields the decimal string of n from serializeI64(n).
C16_RoundTrip64 ==
  /\ (lastCall.fn = "readU64" /\ InRangeU64(lastCall.input)) =>
       /\ ~lastCall.written.err
       /\ Len(lastCall.written.buf) = 8
       /\ ~lastCall.read.err
       /\ lastCall.read.val = [dec |-> lastCall.input]
       /\ lastCall.read.off = 8
  /\ (lastCall.fn = "readI64" /\ InRangeI64(lastCall.input)) =>
       /\ ~lastCall.written.err
       /\ Len(lastCall.written.buf) = 8
       /\ ~lastCall.read.err
       /\ lastCall.read.val = [dec |-> lastCall.input]

\* 2^64 - 1 was written as a u64 and read back
C16_Witness ==
  /\ lastCall.fn = "readU64"
  /\ lastCall.input =
       [neg |-> FALSE,
        digits |-> <<1, 8, 4, 4, 6, 7, 4, 4, 0, 7, 3, 7, 0, 9, 5, 5, 1, 6, 1, 5>>]
  /\ lastCall.written.buf = <<255, 255, 255, 255, 255, 255, 255, 255>>
  /\ lastCall.read.val = [dec |-> lastCall.input]

\* the names of the fields the schema of name declares
SchemaFields(name) ==
  { EventSchema(name)[i][1] : i \in 1..Len(EventSchema(name)) }

\* C17: every event type has a rule with an operation name, an actor field
\* and amount and target fields that are fields of its schema or absent; the
\* rule of TokensMinted is (mint, minter, amount, recipient); and every
\* operation row is what the rule of its event's type yields from the
\* event's field map alone.
C17_ProjectionTotalAndFixed ==
  /\ \A name \in EventNameSet :
       LET m == OPERATION_MAP(name)
       IN /\ m.operation # ""
          /\ m.actor \in SchemaFields(name)
          /\ m.amount \in SchemaFields(name) \cup {""}
          /\ m.target \in SchemaFields(name) \cup {""}
  /\ OPERATION_MAP("TokensMinted") = Mapping("mint", "minter", "amount", "recipient")
  /\ \A r \in 1..Len(operations) :
       \E e \in 1..Len(events) :
         LET m == OPERATION_MAP(events[e].event_type)
             f == events[e].data
         IN /\ events[e].signature = operations[r].signature
            /\ operations[r].operation = m.operation
            /\ operations[r].mint = Field(f, "stablecoin")
            /\ operations[r].actor = Field(f, m.actor)
            /\ operations[r].amount
                 = (IF m.amount = "" THEN SqlNull ELSE Field(f, m.amount))
            /\ operations[r].target
                 = (IF m.target = "" THEN SqlNull ELSE Field(f, m.target))

\* the callback was run on a TokensMinted event, and the operation row is
\* mint with the minter as actor, the amount and the recipient as target
C17_Witness ==
  /\ OnDataLine
  /\ lastCall.fn = "processLog"
  /\ InputBytes = ValidEvent("TokensMinted")
  /\ Len(operations) = 1
  /\ operations[1].operation = "mint"
  /\ operations[1].actor = [pubkey |-> Key(2)]
  /\ operations[1].amount = [dec |-> DecString(FALSE, <<3, 0, 0>>)]
  /\ operations[1].target = [pubkey |-> Key(3)]

\* C20: the callback run on a notification none of whose lines starts with
\* "Program data:" writes no row and starts no dispatch.
C20_OnlyDataLinesAreCandidates ==
  (/\ lastCall.fn = "processLog"
   /\ \A i \in 1..Len(lastCall.input.logs) :
        lastCall.input.logs[i].prefix # "Program data: ")
  => /\ events = <<>>
     /\ operations = <<>>
     /\ dispatches = <<>>
     /\ attempts = <<>>

\* a listener with a webhook service was run on four lines of other kinds,
\* three of them holding the bytes of an event
C20_Witness ==
  /\ lastCall.fn = "processLog"
  /\ lastCall.input.logs = <<LineInvoke, LineNested, LineLower, LineSuccess>>
  /\ webhookService
  /\ events = <<>>
  /\ dispatches = <<>>

\* C18: the event row of the first event of a processed notification carries
\* the notification's signature and the slot at which it was captured.
C18_RowCarriesSignatureAndSlot ==
  \A i \in 1..Len(processed) :
    LET k == processed[i].n
        decoded == DecodedEvents(k)
    IN (~Notifications[k].err /\ decoded # <<>>) =>
         \E r \in 1..Len(events) :
           /\ events[r].signature = Notifications[k].signature
           /\ events[r].event_type = decoded[1].type
           /\ events[r].slot = CaptureSlot[k]

\* C19: every step leaves the stored event rows as they are, in their place:
\* rows are only ever added after them.
C19_EventsAppendOnly ==
  [][/\ Len(events') >= Len(events)
     /\ SubSeq(events', 1, Len(events)) = events]_vars

\* insertEvent was called with a stored signature and another type, subject
\* and timestamp, and the row stored first is still the stored one
C19_Witness ==
  /\ lastCall.fn = "insertEvent"
  /\ lastCall.duplicate
  /\ \E r \in 1..Len(events) :
       /\ events[r].signature = lastCall.row.signature
       /\ events[r].event_type # lastCall.row.event_type
       /\ events[r].stablecoin # lastCall.row.stablecoin
       /\ events[r].timestamp # lastCall.row.timestamp
  /\ events = lastCall.before

\* the rows a query is about: those of the subject when one is given, all
\* rows otherwise, most recent first
QueriedRows ==
  LET table == IF lastCall.fn = "getEvents" THEN events ELSE operations
      of(row) == IF lastCall.fn = "getEvents" THEN row.stablecoin ELSE row.mint
  IN Reverse(IF Truthy(lastCall.subject)
             THEN SelectSeq(table, LAMBDA row : of(row) = lastCall.subject)
             ELSE table)

\* the page of a query as the claim describes it: the rows after the first
\* offset rows of the order, limit of them at most
DescribedPage(rows, limit, offset) ==
  [i \in 1..Min(limit, Len(rows) - offset) |-> rows[offset + i]]

\* C21: a query returns at most limit rows, rows of its subject only, most
\* recent first, starting after the first offset rows; the page that follows
\* a page continues it without a repeated or a skipped row.
C21_Pagination ==
  lastCall.fn \in {"getEvents", "getOperations"} =>
    LET result == lastCall.result
        table == IF lastCall.fn = "getEvents" THEN events ELSE operations
        following == IF lastCall.fn = "getEvents"
                     THEN getEvents(table, lastCall.subject, lastCall.limit,
                                    lastCall.offset + lastCall.limit)
                     ELSE getOperations(table, lastCall.subject, lastCall.limit,
                                        lastCall.offset + lastCall.limit)
    IN /\ Len(result) <= (IF lastCall.limit < 0 THEN 0 ELSE lastCall.limit)
       /\ \A i, j \in 1..Len(result) : i < j => result[i].id > result[j].id
       /\ lastCall.offset >= 0 =>
            /\ result = DescribedPage(QueriedRows, lastCall.limit, lastCall.offset)
            /\ result \o following
                 = DescribedPage(QueriedRows, 2 * lastCall.limit, lastCall.offset)

\* a request to a path other than /health without the right key
Unauthorized(req) == req.path # "/health" /\ req.key # API_KEY

\* C22 as stated: every request to a path other than /health that lacks the
\* X-API-Key header or carries a wrong key is answered 401 and reaches no
\* route handler.
C22_UnauthorizedIs401 ==
  (lastCall.fn = "response" /\ Unauthorized(lastCall.req)) =>
    /\ lastCall.res.status = 401
    /\ lastCall.res.handler = NoHandler

\* C22 as amended: such a request reaches no route handler, and it is
\* answered 401 unless a middleware mounted before apiKeyAuth has answered it
\* already: cors answers a preflight (OPTIONS) request 204, express.json
\* rejects a malformed JSON body with 400.
C22_UnauthorizedReachesNoHandler ==
  (lastCall.fn = "response" /\ Unauthorized(lastCall.req)) =>
    /\ lastCall.res.handler = NoHandler
    /\ lastCall.res.status =
         (IF lastCall.req.method = "OPTIONS" THEN 204
          ELSE IF lastCall.req.body = "malformed json" THEN 400
          ELSE 401)

C22_Witness ==
  /\ lastCall.fn = "response"
  /\ lastCall.req = [method |-> "GET", path |-> "/api/events",
                     key |-> "wrong-key", body |-> "none"]
  /\ lastCall.res = Answer(401, NoHandler)

\* C24: for each kind of entity the SDK and the CLI (and, for a stablecoin,
\* the status route) hash the same seeds in the same order, the seed of the
\* kind then the keys of the entity, with the same program id, so that they
\* derive the same address.
C24_SameSeedsSameAddress ==
  lastCall.fn = "derive" =>
    LET in == lastCall.input
        keys == IF in.kind = "stablecoin" THEN in.first ELSE in.first \o in.second
    IN /\ lastCall.sdk.hashed = SEEDS[in.kind] \o keys
       /\ lastCall.cli = lastCall.sdk
       /\ in.kind = "stablecoin" => lastCall.status = lastCall.sdk

\* the address of a role and that of a stablecoin were derived
C24_Witness ==
  /\ lastCall.fn = "derive"
  /\ lastCall.input.kind = "role"
  /\ lastCall.input.first # lastCall.input.second
  /\ lastCall.cli = lastCall.sdk
  /\ lastCall.sdk.hashed = <<114, 111, 108, 101>> \o lastCall.input.first
                             \o lastCall.input.second

\* C25: the data of mint_tokens is 16 bytes, the discriminator of
\* "global:mint_tokens" then the amount as a u64 in little-endian order, and
\* the SDK and the CLI build the same bytes for the same amount.
C25_MintDataIdentical ==
  lastCall.fn = "mint" =>
    /\ lastCall.cli = lastCall.sdk
    /\ InRangeU64(lastCall.input.amount) =>
         /\ ~lastCall.sdk.err
         /\ Len(lastCall.sdk.data) = 16
         /\ SubSeq(lastCall.sdk.data, 1, 8)
              = <<59, 132, 24, 246, 122, 39, 8, 243>>
         /\ DecString(FALSE, DecOfLE(SubSeq(lastCall.sdk.data, 9, 16)))
              = lastCall.input.amount

\* the data of a mint of 2^63 base units were built
C25_Witness ==
  /\ lastCall.fn = "mint"
  /\ lastCall.input.amount = [neg |-> FALSE, digits |-> Pow2(63)]
  /\ ~lastCall.cli.err
  /\ lastCall.cli.data = <<59, 132, 24, 246, 122, 39, 8, 243,
                            0, 0, 0, 0, 0, 0, 0, 128>>

\* C28: for the same quota and no epoch duration the minters command of the
\* CLI and updateMinter of the SDK build the same update_minter data.
C28_UpdateMinterDataIdentical ==
  (lastCall.fn = "updateMinter" /\ lastCall.input.epochDuration = Undefined) =>
    lastCall.cli = lastCall.sdk

\* C26: whatever has been captured, and wherever a crash has cut the callback
\* between its two writes, each operation row's signature has an event row.
C26_ProjectionNeverLacksEvent ==
  \A i \in 1..Len(operations) : HasSignature(events, operations[i].signature)

\* a crash has left an event without its projection, next to a transaction
\* that has both rows
C26_Witness ==
  /\ \E i \in 1..Len(events) : ~HasSignature(operations, events[i].signature)
  /\ \E i \in 1..Len(operations) : HasSignature(events, operations[i].signature)

\* C27: the field map of every successful decode has the subject field
\* stablecoin and the field its type's rule names as actor, so no stored row
\* lacks its subject or its actor.
C27_SubjectAndActorDecoded ==
  /\ (lastCall.fn = "decodeAnchorEvent" /\ lastCall.result.decoded) =>
       /\ Field(lastCall.result.fields, "stablecoin") # Undefined
       /\ Field(lastCall.result.fields, OPERATION_MAP(lastCall.result.type).actor)
            # Undefined
  /\ \A i \in 1..Len(events) : events[i].stablecoin \notin {Undefined, SqlNull}
  /\ \A i \in 1..Len(operations) :
       /\ operations[i].mint \notin {Undefined, SqlNull}
       /\ operations[i].actor \notin {Undefined, SqlNull}

\* a RolesUpdated event was decoded: its map has stablecoin and updated_by
C27_Witness ==
  /\ lastCall.fn = "decodeAnchorEvent"
  /\ lastCall.result.decoded
  /\ lastCall.result.type = "RolesUpdated"
  /\ Field(lastCall.result.fields, "updated_by") # Undefined
  /\ Field(lastCall.result.fields, "stablecoin") = [pubkey |-> Key(1)]

\* the ids of the rows of a table of registrations
Ids(table) == {table[i].id : i \in 1..Len(table)}

\* C29: register returns an id above every id given before, so no id comes
\* back after its row is removed; a dispatch attempts delivery only to rows
\* that were in the table when it started, hence to none removed before; and
\* remove leaves no row of the id, all other rows as they were, and an id no
\* row has changes nothing.
C29_Lifecycle ==
  [][/\ Ids(webhooks) \subseteq 1..webhookSeq
     /\ webhookSeq' >= webhookSeq
     /\ lastCall'.fn = "register" /\ webhookSeq' # webhookSeq =>
          /\ lastCall'.id > webhookSeq
          /\ lastCall'.id = webhookSeq'
          /\ Ids(webhooks') = Ids(webhooks) \cup {lastCall'.id}
     /\ (lastCall'.fn = "remove" /\ webhooks' # webhooks) =>
          /\ lastCall'.id \in Ids(webhooks)
          /\ lastCall'.id \notin Ids(webhooks')
          /\ webhooks' = SelectSeq(webhooks, LAMBDA w : w.id # lastCall'.id)
     /\ (lastCall'.fn = "remove" /\ lastCall' # lastCall) =>
          /\ lastCall'.id \notin Ids(webhooks')
          /\ lastCall'.id \notin Ids(webhooks) => webhooks' = webhooks
     /\ Len(dispatches') > Len(dispatches) =>
          dispatches'[Len(dispatches')].table = webhooks
     /\ \A a \in (Len(attempts) + 1)..Len(attempts') :
          attempts'[a].webhook \in Ids(dispatches'[attempts'[a].dispatch].table)
    ]_vars

\* registration 3 was removed, a TokensMinted dispatch that started after
\* that has returned with its one attempt made to registration 2, and the
\* registration made last has the id 4
C29_Witness ==
  /\ lastCall.fn = "register"
  /\ lastCall.id = 4
  /\ Ids(webhooks) = {1, 2, 4}
  /\ \E d \in 1..Len(dispatches) :
       /\ dispatches[d].eventType = "TokensMinted"
       /\ Ids(dispatches[d].table) = {1, 2}
       /\ dispatches[d].pos = 0
       /\ \E a \in 1..Len(attempts) :
            attempts[a].dispatch = d /\ attempts[a].webhook = 2

\* the registration of a table that has the id
Registration(table, id) == table[CHOOSE i \in 1..Len(table) : table[i].id = id]

\* the secrets stored with the registrations
StoredSecrets == {webhooks[i].secret : i \in 1..Len(webhooks)} \ {NoSecret, ""}

\* C30: every request of a dispatch goes to the URL of its registration and
\* carries that registration's secret as X-Webhook-Secret, in no other place,
\* or no such header when the registration has no secret; the answer of
\* list() and that of a registration hold no secret.
C30_SecretConfined ==
  /\ \A a \in 1..Len(attempts) :
       LET reg == Registration(dispatches[attempts[a].dispatch].table,
                               attempts[a].webhook)
       IN /\ attempts[a].url = reg.url
          /\ attempts[a].secretHeader
               = (IF reg.secret \in {NoSecret, ""} THEN <<>> ELSE <<reg.secret>>)
          /\ DOMAIN attempts[a].body = {"event", "data", "timestamp"}
          /\ \A i \in 1..Len(attempts[a].body.data) :
               attempts[a].body.data[i].k # "secret"
  /\ lastCall.fn = "list" =>
       \A i \in 1..Len(lastCall.response) :
         /\ DOMAIN lastCall.response[i] = {"id", "url", "events", "active"}
         /\ lastCall.response[i].url \notin StoredSecrets
  /\ lastCall.fn = "register" =>
       /\ DOMAIN lastCall.response = {"id", "url", "events"}
       /\ lastCall.response.url \notin StoredSecrets

\* a TokensMinted dispatch has sent k1 to https://all and then no header to
\* https://mint, and list() has answered
C30_Witness ==
  /\ lastCall.fn = "list"
  /\ Len(lastCall.response) = 3
  /\ \E a, b \in 1..Len(attempts) :
       /\ attempts[a].url = "https://all"
       /\ attempts[a].secretHeader = <<"k1">>
       /\ attempts[b].url = "https://mint"
       /\ attempts[b].secretHeader = <<>>

====
